---- MODULE Spec2Model ----
(***************************************************************************)
(* A model of microRacer's simulation core (src/game.js): the per-car lap  *)
(* state machine, the lap-sample recorder and best-lap record, the ghost   *)
(* player, the pairwise collision resolver and the frame loop that drives  *)
(* them.                                                                   *)
(*                                                                         *)
(* Units.  JavaScript numbers are modelled in fixed point:                 *)
(*   lengths and positions   1/20 pixel   (100 px = 2000)                  *)
(*   speeds                  1/20 pixel per frame                          *)
(*   angles                  degrees      (Math.PI = 180)                  *)
(*   times                   milliseconds (Date.now())                     *)
(*   unit vectors            thousandths  (1.0 = 1000)                     *)
(* Headings are kept on the 30-degree grid, where cos and sin are 0, 1/2,  *)
(* sqrt(3)/2 or 1.                                                         *)
(*                                                                         *)
(* The numeric integration of a car's motion over a frame (handleInput and *)
(* Car.update: throttle, friction, steering) is an input of the frame: the *)
(* pose the car has after Car.update is drawn from a finite set of poses.  *)
(* Everything that happens to that pose afterwards in the frame is         *)
(* computed as the code computes it.                                       *)
(***************************************************************************)
EXTENDS Integers, Sequences, FiniteSets, TLC

VARIABLES
    now,        \* Date.now()
    running,    \* Game.running
    timer,      \* the due time of the pending setTimeout(callback, 3500), 0 if none
    frame,      \* number of gameLoop iterations so far
    game,       \* the Game object's fields
    probe,      \* what each car's lap check saw in the last frame (history)
    bench       \* the input and the result of the last direct call of a function

vars == <<now, running, timer, frame, game, probe, bench>>

(***************************************************************************)
(* Bounds of the model.                                                    *)
(***************************************************************************)
MaxPlayers == 2
MaxFrames == 4
MaxLapFrames == 6
MaxRaceFrames == 8
Epoch == 100000

(***************************************************************************)
(* Program constants, in the units above.                                  *)
(***************************************************************************)
lapsToWin == 3
countdownDuration == 3500
MinSampleInterval == 30
MinLapTime == 5000
GateRadius == 2000
FinishRearmRadius == 4000

StartPoint == [x |-> 22000, y |-> 0]
CheckpointPoint == [x |-> -21635, y |-> -2452]
StartAngle == 360

(***************************************************************************)
(* Arithmetic helpers.                                                     *)
(***************************************************************************)
Abs(a) == IF a < 0 THEN -a ELSE a

Min(a, b) == IF a < b THEN a ELSE b

Max(a, b) == IF a > b THEN a ELSE b

\* JavaScript's %: the remainder takes the sign of the dividend.
JsRem(a, m) == IF a >= 0 THEN a % Abs(m) ELSE -((-a) % Abs(m))

\* a / b rounded to the nearest integer (b > 0).
Rnd(a, b) == IF a >= 0 THEN (2 * a + b) \div (2 * b) ELSE -((2 * (-a) + b) \div (2 * b))

\* Squared distance between two points.
Dist2(p, q) == (p.x - q.x) * (p.x - q.x) + (p.y - q.y) * (p.y - q.y)

\* floor(sqrt(n)) for n >= 0, by bisection on [lo, hi).
RECURSIVE SqrtIn(_, _, _)
SqrtIn(n, lo, hi) ==
    IF hi - lo <= 1
    THEN lo
    ELSE LET mid == (lo + hi) \div 2
         IN  IF mid * mid <= n THEN SqrtIn(n, mid, hi) ELSE SqrtIn(n, lo, mid)

ISqrt(n) == SqrtIn(n, 0, 46341)

\* 1000 * cos(d) and 1000 * sin(d) for d degrees on the 30-degree grid.
CosDeg(d) ==
    LET r == d % 360
    IN  CASE r = 0 -> 1000
          [] r \in {30, 330} -> 866
          [] r \in {60, 300} -> 500
          [] r \in {90, 270} -> 0
          [] r \in {120, 240} -> -500
          [] r \in {150, 210} -> -866
          [] OTHER -> -1000

SinDeg(d) == CosDeg(d - 90)

(***************************************************************************)
(* Car (constructor, src/game.js 523-564) and the start grid (initCars).   *)
(* tiresOnTrack counts the tires on the track: tiresOnTrackRatio * 4.      *)
(***************************************************************************)
carWidth == 460
carHeight == 860
maxSpeedAsphalt == 3000

\* getCollisionRadius(): max(width, height) * 0.45
GetCollisionRadius(car) == (Max(carWidth, carHeight) * 45) \div 100

\* getCurrentMaxSpeed(): maxSpeedAsphalt * (1 - (1 - tiresOnTrackRatio) * 0.04)
GetCurrentMaxSpeed(car) == (maxSpeedAsphalt * (100 - (4 - car.tiresOnTrack))) \div 100

\* The unit vector (thousandths) the car moves along: heading 0 points up.
Forward(car) == [x |-> CosDeg(car.angle - 90), y |-> SinDeg(car.angle - 90)]

NewCar(x, y, startAngle, t) ==
    [x |-> x, y |-> y, angle |-> startAngle, speed |-> 0,
     lap |-> 0, crossedCheckpoint |-> FALSE, crossedFinishLine |-> FALSE,
     lapStartTime |-> t, currentLapTime |-> 0, bestLapTime |-> 0,
     slipstreamEndTime |-> 0, tiresOnTrack |-> 4,
     turnSpeed |-> 0, steerInput |-> 0]

\* initCars' staggered grid slots for track 0: getTrackPoint(0) plus the
\* along/perp offsets, rotated by getTrackDirection(0).
GridSlot(i) ==
    CASE i = 1 -> [x |-> 22497, y |-> 56]
      [] i = 2 -> [x |-> 21593, y |-> -851]
      [] i = 3 -> [x |-> 22676, y |-> -1534]
      [] OTHER -> [x |-> 21772, y |-> -2441]

InitCars(n, t) ==
    [i \in 1..n |-> NewCar(GridSlot(i).x, GridSlot(i).y, StartAngle, t)]

(***************************************************************************)
(* Lap samples and the best-lap record.  null is has = FALSE.              *)
(***************************************************************************)
Sample(tt, x, y, angle) == [t |-> tt, x |-> x, y |-> y, angle |-> angle]

NoBestLap == [has |-> FALSE, time |-> 0, samples |-> <<>>]

\* Faulty variant of recordLapSample: the interval guard of line 1515 is dropped.
RecordLapSample_EveryFrame(G, i) ==
    LET car == G.cars[i]
        sampleTime == car.currentLapTime
    IN  [G EXCEPT
            !.lastSampleTimes[i] = sampleTime,
            !.lapSamples[i] = Append(@, Sample(sampleTime, car.x, car.y, car.angle))]

\* recordLapSample(car, index)
RecordLapSample(G, i) ==
    LET car == G.cars[i]
        sampleTime == car.currentLapTime
    IN  IF sampleTime - G.lastSampleTimes[i] < MinSampleInterval
        THEN G
        ELSE [G EXCEPT
                !.lastSampleTimes[i] = sampleTime,
                !.lapSamples[i] = Append(@, Sample(sampleTime, car.x, car.y, car.angle))]

\* Faulty variant of setBestLap: the ghost cursor is not rewound.
SetBestLap_KeepCursor(G, lapTime, lapSamples, t) ==
    [G EXCEPT
        !.bestLap = [has |-> TRUE, time |-> lapTime, samples |-> lapSamples],
        !.ghostSamples = lapSamples,
        !.ghostLapTime = lapTime,
        !.ghostStartTime = t]

\* setBestLap(lapTime, lapSamples); t is Date.now()
SetBestLap(G, lapTime, lapSamples, t) ==
    [G EXCEPT
        !.bestLap = [has |-> TRUE, time |-> lapTime, samples |-> lapSamples],
        !.ghostSamples = lapSamples,
        !.ghostLapTime = lapTime,
        !.ghostStartTime = t,
        !.ghostCursor = 0,
        !.ghostLastTime = 0]

(***************************************************************************)
(* The lap state machine of one car.                                       *)
(***************************************************************************)
\* checkCheckpoint(car)
CheckCheckpoint(car) ==
    IF Dist2(car, CheckpointPoint) < GateRadius * GateRadius /\ ~car.crossedCheckpoint
    THEN [car EXCEPT !.crossedCheckpoint = TRUE]
    ELSE car

\* Faulty variant of the guard of line 1696: a pass already flagged counts.
PassArmed_IgnoresFinishFlag(car) == car.crossedCheckpoint

\* The guard of line 1696: the pass is new and the checkpoint was crossed.
PassArmed(car) == ~car.crossedFinishLine /\ car.crossedCheckpoint

\* Faulty variant of the guard of line 1699: any lap time counts.
LapLongEnough_AnyTime(car) == car.currentLapTime >= 0

\* The guard of line 1699: the lap is long enough to count.
LapLongEnough(car) == car.currentLapTime > MinLapTime

\* Faulty variant of the guard of lines 1712-1715: an equal time replaces too.
BeatsBestLap_OrEqual(G, car) == ~G.bestLap.has \/ car.currentLapTime <= G.bestLap.time

\* The guard of lines 1712-1715: the completed lap beats the stored best.
BeatsBestLap(G, car) == ~G.bestLap.has \/ car.currentLapTime < G.bestLap.time

\* Faulty variant of the guard of line 1738: a later finisher takes the win.
WinsRace_Overwrite(G, car) == car.lap >= lapsToWin

\* The guard of line 1738.
WinsRace(G, car) == car.lap >= lapsToWin /\ G.winner = 0

\* Faulty variant of lines 1729-1735: the sample buffer survives the lap.
RestartLap_KeepSamples(G, i, t) ==
    [G EXCEPT
        !.cars[i].lapStartTime = t,
        !.cars[i].crossedCheckpoint = FALSE,
        !.ghostStartTime = t,
        !.ghostCursor = 0,
        !.ghostLastTime = 0]

\* Faulty variant of lines 1729-1735: the checkpoint flag survives the lap.
RestartLap_KeepCheckpoint(G, i, t) ==
    [G EXCEPT
        !.cars[i].lapStartTime = t,
        !.lapSamples[i] = <<>>,
        !.lastSampleTimes[i] = 0,
        !.ghostStartTime = t,
        !.ghostCursor = 0,
        !.ghostLastTime = 0]

\* Lines 1729-1735: the next lap starts, for the car and for the ghost.
RestartLap(G, i, t) ==
    [G EXCEPT
        !.cars[i].lapStartTime = t,
        !.cars[i].crossedCheckpoint = FALSE,
        !.lapSamples[i] = <<>>,
        !.lastSampleTimes[i] = 0,
        !.ghostStartTime = t,
        !.ghostCursor = 0,
        !.ghostLastTime = 0]

\* Lines 1700-1747: the lap counts.
CountLap(G, i, t) ==
    LET car == G.cars[i]
        G1 == [G EXCEPT
                 !.cars[i].lap = @ + 1,
                 !.lapSamples[i] =
                     Append(@, Sample(car.currentLapTime, car.x, car.y, car.angle))]
        G2 == IF BeatsBestLap(G1, car)
              THEN SetBestLap(G1, car.currentLapTime, G1.lapSamples[i], t)
              ELSE G1
        G3 == [G2 EXCEPT
                 !.cars[i].bestLapTime =
                     IF @ = 0 \/ car.currentLapTime < @ THEN car.currentLapTime ELSE @]
        G4 == RestartLap(G3, i, t)
    IN  IF WinsRace(G4, G4.cars[i]) THEN [G4 EXCEPT !.winner = i] ELSE G4

\* Faulty variant of checkLapCompletion: a pass rejected by the minimum lap
\* time clears the checkpoint flag.
CheckLapCompletion_RejectDisarms(G, i, t) ==
    LET car == G.cars[i]
        d2 == Dist2(car, StartPoint)
    IN  IF d2 < GateRadius * GateRadius
        THEN IF PassArmed(car)
             THEN LET G1 == [G EXCEPT !.cars[i].crossedFinishLine = TRUE]
                  IN  IF LapLongEnough(car)
                      THEN CountLap(G1, i, t)
                      ELSE [G1 EXCEPT !.cars[i].crossedCheckpoint = FALSE]
             ELSE G
        ELSE IF d2 > FinishRearmRadius * FinishRearmRadius
             THEN [G EXCEPT !.cars[i].crossedFinishLine = FALSE]
             ELSE G

\* checkLapCompletion(car, index); t is Date.now()
CheckLapCompletion(G, i, t) ==
    LET car == G.cars[i]
        d2 == Dist2(car, StartPoint)
    IN  IF d2 < GateRadius * GateRadius
        THEN IF PassArmed(car)
             THEN LET G1 == [G EXCEPT !.cars[i].crossedFinishLine = TRUE]
                  IN  IF LapLongEnough(car) THEN CountLap(G1, i, t) ELSE G1
             ELSE G
        ELSE IF d2 > FinishRearmRadius * FinishRearmRadius
             THEN [G EXCEPT !.cars[i].crossedFinishLine = FALSE]
             ELSE G

(***************************************************************************)
(* The ghost player.  A pose returned by getGhostSampleAt is kept exact:   *)
(* x, y and angle are numerators over the common denominator den.          *)
(***************************************************************************)
Pose(x, y, angle, den) == [x |-> x, y |-> y, angle |-> angle, den |-> den]

\* Faulty variant of line 1539: the turn is a quarter turn off.
AngleDelta_Skewed(a, b) == JsRem(b - a + 180 * 3, 360) - 90

\* Line 1539: the signed turn from a to b that interpolateAngle applies.
AngleDelta(a, b) == JsRem(b - a + 180 * 3, 360) - 180

\* interpolateAngle(a, b, t) with t = num / den; the result times den.
InterpolateAngle(a, b, num, den) == a * den + AngleDelta(a, b) * num

\* Lines 1554-1556: the forward scan from the cursor.
RECURSIVE GhostScan(_, _, _)
GhostScan(samples, index, sampleTime) ==
    IF index < Len(samples) - 1 /\ samples[index + 2].t < sampleTime
    THEN GhostScan(samples, index + 1, sampleTime)
    ELSE index

\* Lines 1566-1569: min(max(n / d, 0), 1) as a numerator over |d| (d # 0).
ClampRatio(n, d) ==
    LET nn == IF d < 0 THEN -n ELSE n
        dd == Abs(d)
    IN  [num |-> Min(Max(nn, 0), dd), den |-> dd]

\* Lines 1559-1575: the pose at sampleTime given the scan's index (0-based).
GhostPoseAt(samples, index, sampleTime) ==
    LET current == samples[index + 1]
        next == samples[Min(index + 1, Len(samples) - 1) + 1]
    IN  IF next.t = current.t
        THEN Pose(current.x, current.y, current.angle, 1)
        ELSE LET r == ClampRatio(sampleTime - current.t, next.t - current.t)
             IN  Pose(current.x * r.den + (next.x - current.x) * r.num,
                      current.y * r.den + (next.y - current.y) * r.num,
                      InterpolateAngle(current.angle, next.angle, r.num, r.den),
                      r.den)

\* Faulty variant of lines 1546-1548: the cursor is never rewound.
GhostScanStart_NoRewind(G, sampleTime) == G.ghostCursor

\* Line 1546-1548: the cursor the scan starts from.
GhostScanStart(G, sampleTime) ==
    IF sampleTime < G.ghostLastTime THEN 0 ELSE G.ghostCursor

\* getGhostSampleAt(sampleTime): the game after the call, and what it returns.
GetGhostSampleAt(G, sampleTime) ==
    IF Len(G.ghostSamples) = 0
    THEN [g |-> G, null |-> TRUE, sample |-> Pose(0, 0, 0, 1)]
    ELSE LET index == GhostScan(G.ghostSamples, GhostScanStart(G, sampleTime), sampleTime)
         IN  [g |-> [G EXCEPT !.ghostLastTime = sampleTime, !.ghostCursor = index],
              null |-> FALSE,
              sample |-> GhostPoseAt(G.ghostSamples, index, sampleTime)]

\* Faulty variant of drawGhost(): the drawn ghost stops the first car.
DrawGhost_StopsCar(G, t) ==
    IF G.countdownActive \/ ~G.ghostEnabled \/ Len(G.ghostSamples) = 0 \/ G.ghostLapTime = 0
    THEN G
    ELSE LET sampleTime == JsRem(t - G.ghostStartTime, G.ghostLapTime)
             r == GetGhostSampleAt(G, sampleTime)
         IN  IF r.null THEN r.g ELSE [r.g EXCEPT !.ghostCar = r.sample, !.cars[1].speed = 0]

\* drawGhost(); t is Date.now()
DrawGhost(G, t) ==
    IF G.countdownActive \/ ~G.ghostEnabled \/ Len(G.ghostSamples) = 0 \/ G.ghostLapTime = 0
    THEN G
    ELSE LET sampleTime == JsRem(t - G.ghostStartTime, G.ghostLapTime)
             r == GetGhostSampleAt(G, sampleTime)
         IN  IF r.null THEN r.g ELSE [r.g EXCEPT !.ghostCar = r.sample]

(***************************************************************************)
(* resolveCarCollisions(): circle collisions, pair by pair.  Inside a pair *)
(* the distance is kept in 1/32 of a length unit and velocities in 1/10 of *)
(* a speed unit.                                                           *)
(***************************************************************************)
MinDist(carA, carB) == GetCollisionRadius(carA) + GetCollisionRadius(carB)

\* Line 2341: the pair overlaps and is not at one point.
PairCollides(carA, carB) ==
    LET d2 == Dist2(carA, carB)
    IN  d2 # 0 /\ d2 < MinDist(carA, carB) * MinDist(carA, carB)

\* Lines 2343-2345: the contact normal (thousandths) and the overlap (1/32).
Contact(carA, carB) ==
    LET dist32 == ISqrt(Dist2(carA, carB) * 1024)
    IN  [nx |-> Rnd((carB.x - carA.x) * 32000, dist32),
         ny |-> Rnd((carB.y - carA.y) * 32000, dist32),
         overlap32 |-> MinDist(carA, carB) * 32 - dist32]

\* Faulty variant of lines 2347-2350: each car is pushed a quarter of the overlap.
PushOf_Quarter(c) ==
    [x |-> Rnd(c.nx * c.overlap32, 128000), y |-> Rnd(c.ny * c.overlap32, 128000)]

\* Faulty variant of lines 2347-2350: each car is pushed the whole overlap.
PushOf_Whole(c) ==
    [x |-> Rnd(c.nx * c.overlap32, 32000), y |-> Rnd(c.ny * c.overlap32, 32000)]

\* Lines 2347-2350: how far each car of the pair is pushed (half the overlap).
PushOf(c) == [x |-> Rnd(c.nx * c.overlap32, 64000), y |-> Rnd(c.ny * c.overlap32, 64000)]

\* Lines 2382-2389: the speed clamped into the car's legal range.
ClampSpeed(car, speed) ==
    Max(Min(speed, GetCurrentMaxSpeed(car)), -(GetCurrentMaxSpeed(car) \div 2))

\* Faulty variant of line 2368: the impulse is four times too strong.
Impulse_Strong(along) == Rnd(-3 * Rnd(along, 1000), 1)

\* Line 2368: -(1 + restitution) * velAlongNormal / 2, restitution 0.5; along
\* is velAlongNormal in 1/10000, the impulse is in 1/10 of a speed unit.
Impulse(along) == Rnd(-3 * Rnd(along, 1000), 4)

\* Lines 2352-2389: the speeds of the pair after the impulse (restitution 0.5,
\* speedDamp 0.9); unchanged when the cars are separating (line 2366).
Bounce(carA, carB, c) ==
    LET fA == Forward(carA)
        fB == Forward(carB)
        velAX == Rnd(fA.x * carA.speed, 100)
        velAY == Rnd(fA.y * carA.speed, 100)
        velBX == Rnd(fB.x * carB.speed, 100)
        velBY == Rnd(fB.y * carB.speed, 100)
        along == (velBX - velAX) * c.nx + (velBY - velAY) * c.ny
        impulse == Impulse(along)
        impulseX == Rnd(impulse * c.nx, 1000)
        impulseY == Rnd(impulse * c.ny, 1000)
        newA == Rnd((velAX - impulseX) * fA.x + (velAY - impulseY) * fA.y, 1000)
        newB == Rnd((velBX + impulseX) * fB.x + (velBY + impulseY) * fB.y, 1000)
    IN  IF along > 0
        THEN [a |-> carA.speed, b |-> carB.speed]
        ELSE [a |-> ClampSpeed(carA, Rnd(newA * 9, 100)),
              b |-> ClampSpeed(carB, Rnd(newB * 9, 100))]

\* One iteration of the inner loop (lines 2333-2389) for the pair (i, j).
ResolvePair(cars, i, j) ==
    IF ~PairCollides(cars[i], cars[j])
    THEN cars
    ELSE LET c == Contact(cars[i], cars[j])
             push == PushOf(c)
             s == Bounce(cars[i], cars[j], c)
         IN  [cars EXCEPT
                ![i] = [@ EXCEPT !.x = @ - push.x, !.y = @ - push.y, !.speed = s.a],
                ![j] = [@ EXCEPT !.x = @ + push.x, !.y = @ + push.y, !.speed = s.b]]

\* The pairs in the order the two loops visit them.
RECURSIVE PairsFrom(_, _, _)
PairsFrom(n, i, j) ==
    IF i >= n THEN <<>>
    ELSE IF j > n THEN PairsFrom(n, i + 1, i + 2)
    ELSE <<(<<i, j>>)>> \o PairsFrom(n, i, j + 1)

PairOrder(n) == PairsFrom(n, 1, 2)

\* The cars after the first k pairs have been resolved.
RECURSIVE ResolveUpTo(_, _)
ResolveUpTo(cars, k) ==
    IF k = 0
    THEN cars
    ELSE LET pr == PairOrder(Len(cars))[k]
         IN  ResolvePair(ResolveUpTo(cars, k - 1), pr[1], pr[2])

\* resolveCarCollisions()
ResolveCarCollisions(cars) == ResolveUpTo(cars, Len(PairOrder(Len(cars))))

(***************************************************************************)
(* Slipstream.                                                             *)
(***************************************************************************)
slipstreamDistance == 2800
slipstreamDuration == 450
slipstreamBoostAccel == 9

\* Faulty variant of lines 2413-2416: any car in range counts, whatever the
\* direction it lies in.
IsLeaderOf_NoCone(target, car) ==
    LET dx == target.x - car.x
        dy == target.y - car.y
        near == Abs(dx) <= slipstreamDistance /\ Abs(dy) <= slipstreamDistance
        d2 == dx * dx + dy * dy
    IN  /\ ~(Abs(target.speed) < 10)
        /\ near
        /\ d2 # 0
        /\ d2 <= slipstreamDistance * slipstreamDistance

\* Lines 2404-2416: target is a qualifying leader of car (speed threshold 0.5,
\* cone half-angle pi/6: cos = 0.866).
IsLeaderOf(target, car) ==
    LET dx == target.x - car.x
        dy == target.y - car.y
        near == Abs(dx) <= slipstreamDistance /\ Abs(dy) <= slipstreamDistance
        d2 == dx * dx + dy * dy
        f == Forward(car)
    IN  /\ ~(Abs(target.speed) < 10)
        /\ near
        /\ d2 # 0
        /\ d2 <= slipstreamDistance * slipstreamDistance
        /\ f.x * dx + f.y * dy >= 866 * ISqrt(d2)

\* applySlipstream(); t is Date.now()
ApplySlipstream(cars, t) ==
    [i \in DOMAIN cars |->
        IF \E j \in DOMAIN cars : j # i /\ IsLeaderOf(cars[j], cars[i])
        THEN [cars[i] EXCEPT !.slipstreamEndTime = t + slipstreamDuration]
        ELSE cars[i]]

\* Faulty variant of line 1778: a boost, once granted, never runs out.
BoostCar_NoExpiry(car, t) ==
    IF car.slipstreamEndTime # 0 /\ car.speed > 0
    THEN [car EXCEPT !.speed = Min(@ + slipstreamBoostAccel,
                                   (GetCurrentMaxSpeed(car) * 108) \div 100)]
    ELSE car

\* Lines 1776-1786: the boost of one car (slipstreamMaxFactor 1.08).
BoostCar(car, t) ==
    IF t < car.slipstreamEndTime /\ car.speed > 0
    THEN [car EXCEPT !.speed = Min(@ + slipstreamBoostAccel,
                                   (GetCurrentMaxSpeed(car) * 108) \div 100)]
    ELSE car

(***************************************************************************)
(* One frame: update() and draw().                                         *)
(***************************************************************************)
\* handleInput() and Car.update() for one car: the pose they leave the car in
\* is the frame's input; line 601 sets currentLapTime from the clock.
Drive(car, pose, t) ==
    [car EXCEPT !.x = pose.x, !.y = pose.y, !.angle = pose.angle,
                !.speed = pose.speed, !.tiresOnTrack = pose.tiresOnTrack,
                !.turnSpeed = pose.turnSpeed, !.steerInput = pose.steerInput,
                !.currentLapTime = t - car.lapStartTime]

\* Lines 1767-1770 for car i: the game as checkLapCompletion finds it.
BeforeLapCheck(G, i, pose, t) ==
    RecordLapSample([G EXCEPT !.cars[i] = CheckCheckpoint(Drive(@, pose, t))], i)

\* Lines 1766-1772: the body of the forEach for car i.
CarStep(G, i, pose, t) == CheckLapCompletion(BeforeLapCheck(G, i, pose, t), i, t)

\* The forEach of lines 1766-1772 after its first k cars.
RECURSIVE CarsUpTo(_, _, _, _)
CarsUpTo(G, k, poses, t) ==
    IF k = 0 THEN G ELSE CarStep(CarsUpTo(G, k - 1, poses, t), k, poses[k], t)

\* Lines 1756-1762: update() does nothing, or only holds the lap clocks.
UpdateRuns(G) == G.winner = 0 /\ ~G.countdownActive

\* Faulty variant of update(): a race that has a winner goes on.
Update_NoWinnerGate(G, poses, t) ==
    IF G.countdownActive
    THEN [G EXCEPT !.cars = [i \in DOMAIN @ |-> [@[i] EXCEPT !.currentLapTime = 0]]]
    ELSE LET G1 == CarsUpTo(G, G.playerCount, poses, t)
             slip == ApplySlipstream(G1.cars, t)
             boosted == [i \in DOMAIN slip |-> BoostCar(slip[i], t)]
         IN  [G1 EXCEPT !.cars = ResolveCarCollisions(boosted)]

\* Faulty variant of update(): the countdown does not stop the cars.
Update_NoCountdownGate(G, poses, t) ==
    IF G.winner # 0
    THEN G
    ELSE LET G1 == CarsUpTo(G, G.playerCount, poses, t)
             slip == ApplySlipstream(G1.cars, t)
             boosted == [i \in DOMAIN slip |-> BoostCar(slip[i], t)]
         IN  [G1 EXCEPT !.cars = ResolveCarCollisions(boosted)]

\* update(); t is Date.now()
Update(G, poses, t) ==
    IF G.winner # 0
    THEN G
    ELSE IF G.countdownActive
    THEN [G EXCEPT !.cars = [i \in DOMAIN @ |-> [@[i] EXCEPT !.currentLapTime = 0]]]
    ELSE LET G1 == CarsUpTo(G, G.playerCount, poses, t)
             slip == ApplySlipstream(G1.cars, t)
             boosted == [i \in DOMAIN slip |-> BoostCar(slip[i], t)]
         IN  [G1 EXCEPT !.cars = ResolveCarCollisions(boosted)]

\* draw(): drawGhost() runs once per viewport.
RECURSIVE Draw(_, _, _)
Draw(G, k, t) == IF k = 0 THEN G ELSE DrawGhost(Draw(G, k - 1, t), t)

\* One gameLoop() iteration at time t.
GameLoopBody(G, poses, t) == Draw(Update(G, poses, t), G.playerCount, t)

\* History: what car i's checkLapCompletion is called with in a frame, and
\* whether the car has been inside the checkpoint radius at a checkCheckpoint
\* since its lap count last rose (cpSince).
ProbeOf(G, poses, t, old) ==
    [i \in 1..G.playerCount |->
        LET B == BeforeLapCheck(CarsUpTo(G, i - 1, poses, t), i, poses[i], t)
            A == CarsUpTo(G, i, poses, t)
            inCp == Dist2(B.cars[i], CheckpointPoint) < GateRadius * GateRadius
        IN  IF ~UpdateRuns(G)
            THEN [old[i] EXCEPT !.ran = FALSE]
            ELSE [ran |-> TRUE,
                  x |-> B.cars[i].x,
                  y |-> B.cars[i].y,
                  angle |-> B.cars[i].angle,
                  d2Start |-> Dist2(B.cars[i], StartPoint),
                  d2Checkpoint |-> Dist2(B.cars[i], CheckpointPoint),
                  crossedCheckpoint |-> B.cars[i].crossedCheckpoint,
                  crossedFinishLine |-> B.cars[i].crossedFinishLine,
                  currentLapTime |-> B.cars[i].currentLapTime,
                  lapSamples |-> B.lapSamples[i],
                  bestLap |-> B.bestLap,
                  bestLapAfter |-> A.bestLap,
                  cpSince |-> IF A.cars[i].lap # G.cars[i].lap
                              THEN FALSE
                              ELSE old[i].cpSince \/ inCp]]

(***************************************************************************)
(* The countdown.                                                          *)
(***************************************************************************)
\* Faulty variant of the completion callback: the ghost keeps its old epoch.
CountdownDone_GhostKeepsEpoch(G, t) ==
    [G EXCEPT
        !.countdownActive = FALSE,
        !.countdownEndTime = t,
        !.cars = [i \in DOMAIN @ |-> [@[i] EXCEPT !.lapStartTime = t, !.currentLapTime = 0]]]

\* The completion callback of startCountdown (lines 2454-2465).
CountdownDone(G, t) ==
    [G EXCEPT
        !.countdownActive = FALSE,
        !.countdownEndTime = t,
        !.ghostStartTime = t,
        !.ghostCursor = 0,
        !.ghostLastTime = 0,
        !.cars = [i \in DOMAIN @ |-> [@[i] EXCEPT !.lapStartTime = t, !.currentLapTime = 0]]]

\* startCountdown() up to the call of playCountdown.
StartCountdown(G, t) ==
    [G EXCEPT !.countdownActive = TRUE, !.countdownStartTime = t, !.countdownEndTime = 0]

(***************************************************************************)
(* The game after construction.                                            *)
(***************************************************************************)
\* A best lap as loadBestLap may find it stored by an earlier session.
StoredLap ==
    [has |-> TRUE, time |-> 9960,
     samples |-> << Sample(4980, -21635, -2452, 180),
                    Sample(9960, 22497, 56, 360),
                    Sample(9960, 22497, 56, 360) >>]

StoredLaps == {NoBestLap, StoredLap}

\* new Game(playerCount, trackIndex, settings, controllerConfig) at time t.
NewGame(n, ghostEnabled, stored, t) ==
    [playerCount |-> n,
     cars |-> InitCars(n, t),
     winner |-> 0,
     ghostEnabled |-> ghostEnabled,
     lapSamples |-> [i \in 1..n |-> <<>>],
     lastSampleTimes |-> [i \in 1..n |-> 0],
     bestLap |-> stored,
     ghostSamples |-> stored.samples,
     ghostLapTime |-> stored.time,
     ghostStartTime |-> t,
     ghostCursor |-> 0,
     ghostLastTime |-> 0,
     ghostCar |-> Pose(0, 0, 0, 1),
     countdownActive |-> FALSE,
     countdownStartTime |-> 0,
     countdownEndTime |-> 0]

NoBench == [done |-> FALSE, calls |-> 0]

NoProbe(n) ==
    [i \in 1..n |->
        [ran |-> FALSE, x |-> 0, y |-> 0, angle |-> 0, d2Start |-> 0, d2Checkpoint |-> 0,
         crossedCheckpoint |-> FALSE, crossedFinishLine |-> FALSE, currentLapTime |-> 0,
         lapSamples |-> <<>>, bestLap |-> NoBestLap, bestLapAfter |-> NoBestLap,
         cpSince |-> FALSE]]

Init ==
    /\ now = Epoch
    /\ running = FALSE
    /\ timer = 0
    /\ frame = 0
    /\ \E n \in 1..MaxPlayers, ge \in BOOLEAN, stored \in StoredLaps :
          game = NewGame(n, ge, stored, Epoch)
    /\ probe = NoProbe(game.playerCount)
    /\ bench = NoBench

(***************************************************************************)
(* The poses a frame may leave a car in, and the time between frames.      *)
(***************************************************************************)
PoseAt(p, angle, speed, tires) ==
    [x |-> p.x, y |-> p.y, angle |-> angle, speed |-> speed, tiresOnTrack |-> tires,
     turnSpeed |-> 0, steerInput |-> 0]

\* The pose with the steering held to one side: steerInput is -1, 0 or 1 and
\* turnSpeed is in thousandths of maxTurnSpeed.
Steered(pose, steerInput) ==
    [pose EXCEPT !.steerInput = steerInput, !.turnSpeed = 250 * steerInput]

\* The pose of a car that did not move.
StillPose(car) ==
    [x |-> car.x, y |-> car.y, angle |-> car.angle, speed |-> car.speed,
     tiresOnTrack |-> car.tiresOnTrack,
     turnSpeed |-> car.turnSpeed, steerInput |-> car.steerInput]

\* Car i inside the checkpoint radius, 15 px from the next car.
OnCheckpoint(i) == [x |-> CheckpointPoint.x + 300 * (i - 1), y |-> CheckpointPoint.y]

\* On its grid slot (inside the finish radius for cars 1 to 3); exactly 200 px
\* from the start point, on top of any other car there; far from both gates,
\* 20 px from the next car and closing in on it; on the checkpoint.
FramePoses(i) ==
    { PoseAt(GridSlot(i), 360, 100, 4),
      Steered(PoseAt([x |-> 19600, y |-> 3200], 90, 100, 4), 1),
      Steered(PoseAt([x |-> 400 * (i - 1), y |-> 0], 270, 60 * i, 2), -1),
      PoseAt(OnCheckpoint(i), 180, 100, 4) }

DtSet == {20, 4980}

(***************************************************************************)
(* Actions.                                                                *)
(***************************************************************************)
\* start(): startCountdown(), whose callback runs at once when the sound
\* manager is not initialized, then the first gameLoop() at the same instant.
Start(initialized) ==
    /\ ~running
    /\ game.countdownStartTime = 0
    /\ LET G0 == StartCountdown(game, now)
           G1 == IF initialized THEN G0 ELSE CountdownDone(G0, now)
           poses == [i \in 1..game.playerCount |-> StillPose(G1.cars[i])]
       IN  /\ game' = GameLoopBody(G1, poses, now)
           /\ probe' = ProbeOf(G1, poses, now, probe)
    /\ running' = TRUE
    /\ timer' = IF initialized THEN now + countdownDuration ELSE 0
    /\ frame' = frame + 1
    /\ now' = now
    /\ UNCHANGED bench

\* setTimeout(callback, 3500) of playCountdown fires.
TimerFires ==
    /\ timer # 0
    /\ now >= timer
    /\ game' = CountdownDone(game, now)
    /\ timer' = 0
    /\ UNCHANGED <<now, running, frame, probe, bench>>

\* requestAnimationFrame runs gameLoop() dt ms after the previous frame.
GameLoop(dt, poses, maxFrames) ==
    /\ running
    /\ frame < maxFrames
    /\ now' = now + dt
    /\ frame' = frame + 1
    /\ game' = GameLoopBody(game, poses, now')
    /\ probe' = ProbeOf(game, poses, now', probe)
    /\ UNCHANGED <<running, timer, bench>>

\* The ways to give each car one of the poses P offers it.
PoseChoices(P(_)) ==
    { ps \in [1..game.playerCount -> UNION {P(i) : i \in 1..game.playerCount}] :
        \A i \in 1..game.playerCount : ps[i] \in P(i) }

Next ==
    \/ \E initialized \in BOOLEAN : Start(initialized)
    \/ TimerFires
    \/ \E dt \in DtSet, poses \in PoseChoices(FramePoses) : GameLoop(dt, poses, MaxFrames)

Spec == Init /\ [][Next]_vars

(***************************************************************************)
(* SpecLap: one player, followed over more frames.                         *)
(***************************************************************************)
InitLap == Init /\ game.playerCount = 1

NextLap ==
    \/ \E initialized \in BOOLEAN : Start(initialized)
    \/ TimerFires
    \/ \E dt \in DtSet, poses \in PoseChoices(FramePoses) : GameLoop(dt, poses, MaxLapFrames)

SpecLap == InitLap /\ [][NextLap]_vars

(***************************************************************************)
(* SpecRace: a whole race.  Every frame is a long one and leaves each car  *)
(* on its grid slot or on the checkpoint.                                  *)
(***************************************************************************)
RacePoses(i) == { PoseAt(GridSlot(i), 360, 100, 4), PoseAt(OnCheckpoint(i), 180, 100, 4) }

RaceDtSet == {4980}

InitRace == Init /\ game.playerCount = MaxPlayers

NextRace ==
    \/ \E initialized \in BOOLEAN : Start(initialized)
    \/ TimerFires
    \/ \E dt \in RaceDtSet, poses \in PoseChoices(RacePoses) : GameLoop(dt, poses, MaxRaceFrames)

SpecRace == InitRace /\ [][NextRace]_vars

(***************************************************************************)
(* SpecCollide: resolveCarCollisions() called on 2..MaxCollidePlayers cars *)
(* placed around one point, with headings and speeds of their own.         *)
(***************************************************************************)
MaxCollidePlayers == 4

\* The positions, heading and speed car i may be given.
CollidePlacements(i) ==
    CASE i = 1 ->
            { [x |-> 0, y |-> 0, angle |-> a, speed |-> v] :
                a \in {30, 90, 150, 270}, v \in {0, 1000, 3000, -500} }
      [] i = 2 ->
            { [x |-> q[1], y |-> q[2], angle |-> a, speed |-> v] :
                q \in {<<400, 0>>, <<300, 400>>, <<0, 800>>},
                a \in {0, 90, 270}, v \in {0, 1000} }
      [] i = 3 ->
            { [x |-> q[1], y |-> q[2], angle |-> 90, speed |-> v] :
                q \in {<<-400, 0>>, <<800, 0>>}, v \in {0, 1000} }
      [] OTHER ->
            { [x |-> q[1], y |-> q[2], angle |-> 0, speed |-> 0] :
                q \in {<<0, -400 * (i - 3)>>, <<1200, 400 * (i - 3)>>} }

RECURSIVE Placings(_)
Placings(n) ==
    IF n = 0
    THEN { <<>> }
    ELSE { Append(ps, c) : ps \in Placings(n - 1), c \in CollidePlacements(n) }

PlaceCars(cars, placing) ==
    [i \in DOMAIN cars |->
        [cars[i] EXCEPT !.x = placing[i].x, !.y = placing[i].y,
                        !.angle = placing[i].angle, !.speed = placing[i].speed]]

InitCollide ==
    /\ now = Epoch
    /\ running = FALSE
    /\ timer = 0
    /\ frame = 0
    /\ \E n \in 2..MaxCollidePlayers :
          \E placing \in Placings(n) :
              game = [NewGame(n, FALSE, NoBestLap, Epoch) EXCEPT
                         !.cars = PlaceCars(@, placing)]
    /\ probe = NoProbe(game.playerCount)
    /\ bench = NoBench

\* One call of resolveCarCollisions(); bench keeps the cars as they stand
\* before the first pair and after each pair.
CallResolveCarCollisions ==
    /\ ~bench.done
    /\ game' = [game EXCEPT !.cars = ResolveCarCollisions(@)]
    /\ bench' = [done |-> TRUE,
                 calls |-> bench.calls + 1,
                 steps |-> [k \in 1..(Len(PairOrder(game.playerCount)) + 1) |->
                               ResolveUpTo(game.cars, k - 1)]]
    /\ UNCHANGED <<now, running, timer, frame, probe>>

NextCollide == CallResolveCarCollisions

SpecCollide == InitCollide /\ [][NextCollide]_vars

(***************************************************************************)
(* SpecHeadOn: resolveCarCollisions() called on two cars that face each    *)
(* other on a horizontal or vertical line, closer than the sum of their    *)
(* radii, driving at each other with the same speed.                       *)
(***************************************************************************)
\* Center distances between 1 px and the sum of the radii (38.7 px).
HeadOnGaps == {20, 200, 401, 600, 773}

HeadOnSpeeds == {20, 100, 1000, 2000, 3000}

HeadOnOrigins == { <<0, 0>>, <<22000, 0>>, <<-5000, 3000>> }

\* The heading of the first car: right, down, left, up.
HeadOnHeadings == {90, 180, 270, 360}

\* Car 1 at the origin o heading a, car 2 a distance d ahead of it heading back.
HeadOnPlacing(o, a, d, v) ==
    LET f == Forward([angle |-> a])
    IN  << [x |-> o[1], y |-> o[2], angle |-> a, speed |-> v],
           [x |-> o[1] + (f.x * d) \div 1000, y |-> o[2] + (f.y * d) \div 1000,
            angle |-> JsRem(a + 180, 360), speed |-> v] >>

InitHeadOn ==
    /\ now = Epoch
    /\ running = FALSE
    /\ timer = 0
    /\ frame = 0
    /\ \E o \in HeadOnOrigins, a \in HeadOnHeadings, d \in HeadOnGaps, v \in HeadOnSpeeds :
          game = [NewGame(2, FALSE, NoBestLap, Epoch) EXCEPT
                     !.cars = PlaceCars(@, HeadOnPlacing(o, a, d, v))]
    /\ probe = NoProbe(game.playerCount)
    /\ bench = NoBench

SpecHeadOn == InitHeadOn /\ [][NextCollide]_vars

(***************************************************************************)
(* SpecThrottle: one car fully on the track with the throttle key held,    *)
(* frame after frame, no other car near.  Only its speed is followed       *)
(* (bench.speed), in 1/SpeedSubunits of a speed unit; requestAnimationFrame *)
(* keeps the frames coming.                                                *)
(***************************************************************************)
SpeedSubunits == 500

\* Car.acceleration: 0.6 * speedScale px per frame, in speed units.
acceleration == 6

asphaltFriction == 95

grassFriction == 82

\* Lines 1661-1666: the throttle key is down.
ThrottleUp(speed, car) ==
    Min(speed + acceleration * SpeedSubunits, GetCurrentMaxSpeed(car) * SpeedSubunits)

\* Faulty variant of Car.update(): the grass friction is not weighted by the
\* share of the tires on the grass.
ApplyFriction_Unblended(speed, car) ==
    (speed * (asphaltFriction * car.tiresOnTrack + grassFriction * 4)) \div 400

\* Lines 583-588 of Car.update(): speed *= frictionBlend.
ApplyFriction(speed, car) ==
    (speed * (asphaltFriction * car.tiresOnTrack + grassFriction * (4 - car.tiresOnTrack)))
        \div 400

InitThrottle ==
    /\ now = Epoch
    /\ running = TRUE
    /\ timer = 0
    /\ frame = 0
    /\ game = CountdownDone(NewGame(1, FALSE, NoBestLap, Epoch), Epoch)
    /\ probe = NoProbe(game.playerCount)
    /\ bench = [done |-> FALSE, calls |-> 0, speed |-> 0]

\* One frame: handleInput() raises the speed, Car.update() applies friction.
ThrottleTick ==
    /\ running
    /\ bench' = [bench EXCEPT
                    !.done = TRUE,
                    !.speed = ApplyFriction(ThrottleUp(@, game.cars[1]), game.cars[1])]
    /\ UNCHANGED <<now, running, timer, frame, game, probe>>

NextThrottle == ThrottleTick

SpecThrottle == InitThrottle /\ [][NextThrottle]_vars /\ WF_vars(NextThrottle)

(***************************************************************************)
(* SpecLoad: a one-player game built while localStorage holds any of a     *)
(* range of values under the best-lap key, then run for a few frames.      *)
(* bench.stored is the stored value, bench.loaded what loadBestLap made of *)
(* it, bench.failed whether a frame threw.  A stored value is a record:    *)
(* kind says what getItem and JSON.parse give ("missing": getItem returns  *)
(* null; "unparsable": JSON.parse throws; "number": a JSON value that is   *)
(* not an object; "object"), hasTime and time describe the time property,  *)
(* samplesKind and samples the samples property.  A null array entry is    *)
(* NullEntry.                                                              *)
(***************************************************************************)
MaxLoadFrames == 3

NullEntry == [isNull |-> TRUE]

IsNullEntry(e) == "t" \notin DOMAIN e

StoredSampleArrays ==
    { <<>>,
      StoredLap.samples,
      << NullEntry >>,
      << NullEntry, NullEntry >>,
      << Sample(4980, -21635, -2452, 180), NullEntry, Sample(9960, 22497, 56, 360) >> }

StoredValues ==
    { [kind |-> k, hasTime |-> FALSE, time |-> 0, samplesKind |-> "absent", samples |-> <<>>] :
         k \in {"missing", "unparsable", "number"} }
    \cup
    { [kind |-> "object", hasTime |-> tm[1], time |-> tm[2],
       samplesKind |-> sm[1], samples |-> sm[2]] :
         tm \in { <<FALSE, 0>>, <<TRUE, 0>>, <<TRUE, 9960>>, <<TRUE, -5000>> },
         sm \in { <<"absent", <<>> >>, <<"notArray", <<>> >> }
                   \cup { <<"array", a>> : a \in StoredSampleArrays } }

\* loadBestLap(): null unless the parsed value is truthy, has a truthy time and
\* an array under samples.
LoadBestLap(stored) ==
    IF \/ stored.kind # "object"
       \/ ~stored.hasTime
       \/ stored.time = 0
       \/ stored.samplesKind # "array"
    THEN NoBestLap
    ELSE [has |-> TRUE, time |-> stored.time, samples |-> stored.samples]

\* Lines 1554-1556 on an array that may hold null entries: the index the scan
\* stops at, or that reading samples[index + 1].t threw.
RECURSIVE ScanOutcome(_, _, _)
ScanOutcome(samples, index, sampleTime) ==
    IF index < Len(samples) - 1
    THEN IF IsNullEntry(samples[index + 2])
         THEN [throws |-> TRUE, index |-> index]
         ELSE IF samples[index + 2].t < sampleTime
              THEN ScanOutcome(samples, index + 1, sampleTime)
              ELSE [throws |-> FALSE, index |-> index]
    ELSE [throws |-> FALSE, index |-> index]

\* getGhostSampleAt(sampleTime) on such an array: it throws, returns null, or
\* returns a pose.
GhostQueryOutcome(G, sampleTime) ==
    IF Len(G.ghostSamples) = 0
    THEN "null"
    ELSE LET sc == ScanOutcome(G.ghostSamples, GhostScanStart(G, sampleTime), sampleTime)
             current == G.ghostSamples[sc.index + 1]
             next == G.ghostSamples[Min(sc.index + 1, Len(G.ghostSamples) - 1) + 1]
         IN  IF sc.throws THEN "throws"
             ELSE IF IsNullEntry(next)
                  THEN IF IsNullEntry(current) THEN "null" ELSE "pose"
                  ELSE IF IsNullEntry(current) THEN "throws" ELSE "pose"

\* drawGhost() reaches getGhostSampleAt.
GhostQueried(G) == ~G.countdownActive /\ G.ghostEnabled /\ G.ghostLapTime # 0

\* draw() of a one-player game throws in drawGhost().
DrawThrows(G, t) ==
    /\ GhostQueried(G)
    /\ GhostQueryOutcome(G, JsRem(t - G.ghostStartTime, G.ghostLapTime)) = "throws"

\* draw() of a one-player game whose stored samples may hold null entries.
LoadDraw(G, t) ==
    LET sampleTime == JsRem(t - G.ghostStartTime, G.ghostLapTime)
        outcome == GhostQueryOutcome(G, sampleTime)
    IN  IF ~GhostQueried(G) \/ Len(G.ghostSamples) = 0
        THEN G
        ELSE IF outcome = "pose"
        THEN DrawGhost(G, t)
        ELSE IF outcome = "null"
        THEN [G EXCEPT !.ghostLastTime = sampleTime,
                       !.ghostCursor = GhostScanStart(G, sampleTime)]
        ELSE [G EXCEPT !.ghostLastTime = sampleTime]

InitLoad ==
    /\ now = Epoch
    /\ running = FALSE
    /\ timer = 0
    /\ frame = 0
    /\ \E stored \in StoredValues, ghostEnabled \in BOOLEAN :
          /\ game = NewGame(1, ghostEnabled, LoadBestLap(stored), Epoch)
          /\ bench = [done |-> FALSE, calls |-> 0, stored |-> stored,
                      loaded |-> LoadBestLap(stored), failed |-> FALSE]
    /\ probe = NoProbe(game.playerCount)

\* start(), its first gameLoop() included.
LoadStart(initialized) ==
    /\ ~running
    /\ game.countdownStartTime = 0
    /\ LET G0 == StartCountdown(game, now)
           G1 == IF initialized THEN G0 ELSE CountdownDone(G0, now)
           poses == [i \in 1..game.playerCount |-> StillPose(G1.cars[i])]
           U == Update(G1, poses, now)
       IN  /\ game' = LoadDraw(U, now)
           /\ probe' = ProbeOf(G1, poses, now, probe)
           /\ bench' = [bench EXCEPT !.done = TRUE, !.calls = @ + 1,
                                     !.failed = DrawThrows(U, now)]
    /\ running' = TRUE
    /\ timer' = IF initialized THEN now + countdownDuration ELSE 0
    /\ frame' = frame + 1
    /\ now' = now

\* One gameLoop() iteration; a frame that threw did not ask for the next one.
LoadGameLoop(dt, poses) ==
    /\ running
    /\ ~bench.failed
    /\ frame < MaxLoadFrames
    /\ now' = now + dt
    /\ frame' = frame + 1
    /\ LET U == Update(game, poses, now')
       IN  /\ game' = LoadDraw(U, now')
           /\ bench' = [bench EXCEPT !.calls = @ + 1, !.failed = DrawThrows(U, now')]
    /\ probe' = ProbeOf(game, poses, now', probe)
    /\ UNCHANGED <<running, timer>>

NextLoad ==
    \/ \E initialized \in BOOLEAN : LoadStart(initialized)
    \/ TimerFires
    \/ \E dt \in RaceDtSet, poses \in PoseChoices(RacePoses) : LoadGameLoop(dt, poses)

SpecLoad == InitLoad /\ [][NextLoad]_vars

(***************************************************************************)
(* The track: generateTrack()'s control points for track indices 0 to 9 in *)
(* 1/20 px (the seeded radii and lateral offsets evaluated and rounded),   *)
(* and the centre line through them.  A curve parameter t is a fraction    *)
(* num / den; a point of the curve is kept exactly, as numerators x and y  *)
(* over den.  fails says that the call read a property of an undefined     *)
(* array element and threw.                                                *)
(***************************************************************************)
segments == 28

trackWidth == 2400

TrackSamples == 100

\* Lines 1142-1273: the 28 points before the closing push.
RawPoints(trackIndex) ==
    CASE trackIndex = 0 ->
            << <<22000, 0>>, <<21448, 4895>>, <<19821, 9545>>, <<21007,
               16752>>, <<15814, 19830>>, <<10010, 20786>>, <<5432, 17594>>,
               <<-226, 22670>>, <<-2024, 14913>>, <<-7871, 18824>>,
               <<-11482, 14398>>, <<-15601, 12441>>, <<-19102, 9199>>,
               <<-21751, 4965>>, <<-21787, 0>>, <<-21483, -4903>>, <<-19319,
               -9303>>, <<-18636, -14861>>, <<-15149, -18996>>, <<-10483,
               -21767>>, <<-5321, -23312>>, <<0, -23273>>, <<4760, -20855>>,
               <<7586, -15753>>, <<10765, -13499>>, <<13304, -10610>>,
               <<19821, -9545>>, <<21448, -4895>> >>
      [] trackIndex = 1 ->
            << <<22000, 0>>, <<21448, 4895>>, <<19821, 9545>>, <<21142,
               16860>>, <<16655, 20884>>, <<10136, 21047>>, <<5001, 21913>>,
               <<-2632, 23896>>, <<-9476, 20509>>, <<-12746, 17737>>,
               <<-11428, 14330>>, <<-15857, 12645>>, <<-18399, 8861>>,
               <<-20006, 4566>>, <<-20140, 0>>, <<-22773, -5198>>, <<-19343,
               -9315>>, <<-17541, -13988>>, <<-16214, -20331>>, <<-10758,
               -22338>>, <<-5635, -24691>>, <<0, -24955>>, <<4625, -20264>>,
               <<8186, -16998>>, <<10294, -12909>>, <<13520, -10782>>,
               <<19821, -9545>>, <<21448, -4895>> >>
      [] trackIndex = 2 ->
            << <<22000, 0>>, <<21448, 4895>>, <<19821, 9545>>, <<21900,
               17465>>, <<16557, 20762>>, <<10373, 21539>>, <<4926, 21580>>,
               <<0, 18802>>, <<-3735, 16134>>, <<-8349, 18702>>, <<-12386,
               15532>>, <<-14073, 11223>>, <<-18922, 9112>>, <<-19853,
               4531>>, <<-21538, 0>>, <<-22679, -5176>>, <<-20956, -10092>>,
               <<-18741, -14945>>, <<-14468, -18143>>, <<-11380, -23630>>,
               <<-5448, -23868>>, <<0, -22275>>, <<4467, -19572>>, <<8326,
               -17288>>, <<10057, -12611>>, <<13000, -10367>>, <<19821,
               -9545>>, <<21448, -4895>> >>
      [] trackIndex = 3 ->
            << <<22000, 0>>, <<21448, 4895>>, <<19821, 9545>>, <<21827,
               17406>>, <<16838, 21114>>, <<10844, 22517>>, <<4699, 20588>>,
               <<0, 20409>>, <<-4217, 18474>>, <<-6294, 14433>>, <<-10276,
               11469>>, <<-16598, 14563>>, <<-19834, 9747>>, <<-21874,
               4993>>, <<-21532, 0>>, <<-20971, -4786>>, <<-19480, -9381>>,
               <<-19036, -15180>>, <<-16023, -20092>>, <<-11199, -23254>>,
               <<-5242, -22968>>, <<0, -24640>>, <<4914, -21528>>, <<8742,
               -18153>>, <<10935, -13712>>, <<12249, -9768>>, <<19821,
               -9545>>, <<21448, -4895>> >>
      [] trackIndex = 4 ->
            << <<22000, 0>>, <<21448, 4895>>, <<19821, 9545>>, <<22009,
               17552>>, <<17033, 21358>>, <<10105, 20983>>, <<5058, 22162>>,
               <<0, 18938>>, <<-4360, 19104>>, <<-7532, 15640>>, <<-12203,
               15302>>, <<-15633, 12467>>, <<-18664, 8988>>, <<-18920,
               4079>>, <<-18182, -928>>, <<-17139, -6279>>, <<-17826,
               -10945>>, <<-16562, -13952>>, <<-14514, -18201>>, <<-11154,
               -23162>>, <<-5467, -23951>>, <<0, -24958>>, <<4819, -21114>>,
               <<7522, -15619>>, <<11068, -13879>>, <<13059, -10415>>,
               <<19821, -9545>>, <<21448, -4895>> >>
      [] trackIndex = 5 ->
            << <<22000, 0>>, <<21448, 4895>>, <<19821, 9545>>, <<21225,
               16926>>, <<16128, 20224>>, <<11016, 22876>>, <<4678, 20494>>,
               <<1152, 17093>>, <<-3992, 19458>>, <<-6180, 14301>>,
               <<-11385, 16578>>, <<-14223, 11604>>, <<-18651, 9904>>,
               <<-21217, 4843>>, <<-21110, 0>>, <<-22618, -5162>>, <<-20740,
               -9988>>, <<-17737, -14144>>, <<-15579, -19535>>, <<-11220,
               -23298>>, <<-5314, -23281>>, <<0, -23102>>, <<4866, -21317>>,
               <<7828, -16254>>, <<11342, -14222>>, <<11294, -9007>>,
               <<19821, -9545>>, <<21448, -4895>> >>
      [] trackIndex = 6 ->
            << <<22000, 0>>, <<21448, 4895>>, <<19821, 9545>>, <<20950,
               16707>>, <<17043, 21372>>, <<10888, 22610>>, <<5008, 21942>>,
               <<0, 19134>>, <<-4020, 17614>>, <<-7134, 14815>>, <<-11275,
               14139>>, <<-14613, 11654>>, <<-21831, 12075>>, <<-27222,
               4138>>, <<-24113, -2331>>, <<-17501, -3225>>, <<-14886,
               -10146>>, <<-13267, -14320>>, <<-15377, -19282>>, <<-10913,
               -22661>>, <<-5639, -24706>>, <<0, -22565>>, <<5065, -22192>>,
               <<8221, -17071>>, <<10564, -13246>>, <<12169, -9704>>,
               <<19821, -9545>>, <<21448, -4895>> >>
      [] trackIndex = 7 ->
            << <<22000, 0>>, <<21448, 4895>>, <<19821, 9545>>, <<21510,
               17154>>, <<16640, 20865>>, <<10757, 22337>>, <<4775, 20921>>,
               <<0, 20722>>, <<-4131, 18100>>, <<-7765, 16123>>, <<-12276,
               15393>>, <<-14962, 11932>>, <<-19600, 9439>>, <<-19291,
               4403>>, <<-21771, 0>>, <<-17942, -4473>>, <<-17857, -10193>>,
               <<-14254, -13360>>, <<-11278, -17502>>, <<-7689, -19239>>,
               <<-3512, -21112>>, <<169, -22497>>, <<4955, -21709>>, <<8243,
               -17117>>, <<10288, -12901>>, <<13313, -10617>>, <<19821,
               -9545>>, <<21448, -4895>> >>
      [] trackIndex = 8 ->
            << <<22000, 0>>, <<21448, 4895>>, <<19821, 9545>>, <<21140,
               16859>>, <<15872, 19903>>, <<10619, 22050>>, <<5058, 22161>>,
               <<0, 20389>>, <<-4058, 17779>>, <<-7176, 14901>>, <<-9856,
               10594>>, <<-15716, 16043>>, <<-14454, 7058>>, <<-20848,
               4758>>, <<-22603, 0>>, <<-21750, -4964>>, <<-21763, -10480>>,
               <<-17411, -13884>>, <<-15978, -20035>>, <<-10411, -21619>>,
               <<-5570, -24403>>, <<0, -24005>>, <<5034, -22057>>, <<7938,
               -16483>>, <<10492, -13157>>, <<12849, -10247>>, <<19821,
               -9545>>, <<21448, -4895>> >>
      [] OTHER ->
            << <<22000, 0>>, <<21448, 4895>>, <<19821, 9545>>, <<22378,
               17846>>, <<15956, 20008>>, <<10388, 21572>>, <<5077, 22244>>,
               <<0, 20498>>, <<-4178, 18305>>, <<-8188, 17004>>, <<-10655,
               13362>>, <<-15648, 12479>>, <<-17226, 8296>>, <<-21766,
               4968>>, <<-17741, -245>>, <<-19324, -6101>>, <<-15371,
               -9835>>, <<-19565, -15603>>, <<-14543, -18236>>, <<-10259,
               -21304>>, <<-5395, -23636>>, <<0, -24470>>, <<5011, -21954>>,
               <<8648, -17958>>, <<10268, -12876>>, <<13024, -10386>>,
               <<19821, -9545>>, <<21448, -4895>> >>

\* Faulty variant of generateTrack(): the loop is not closed.
TrackPoints_Open(trackIndex) == RawPoints(trackIndex)

\* generateTrack(): line 1276 pushes a copy of the first point.
TrackPoints(trackIndex) == Append(RawPoints(trackIndex), RawPoints(trackIndex)[1])

\* this.points[j] of a JavaScript array: defined for 0 <= j < length only.
Defined(points, j) == j >= 0 /\ j < Len(points)

\* Lines 1280-1319: the segment t = num / den falls in, its parameter u = un /
\* den, and twice its start, control and end point.
Segment(points, num, den) ==
    LET totalSegments == Len(points) - 1
        segmentIndex == (num * totalSegments) \div den
        index == JsRem(segmentIndex, totalSegments)
        i == index + 1
        reads == CASE index = 0 -> {0, 1, 2}
                   [] index = totalSegments - 1 -> {i - 1, i, 0}
                   [] OTHER -> {i - 1, i, i + 1}
        P(j) == points[j + 1]
        Twice(j) == << 2 * P(j)[1], 2 * P(j)[2] >>
        Sum(j, k) == << P(j)[1] + P(k)[1], P(j)[2] + P(k)[2] >>
    IN  IF \E j \in reads : ~Defined(points, j)
        THEN [fails |-> TRUE]
        ELSE [fails |-> FALSE,
              un |-> num * totalSegments - segmentIndex * den,
              start |-> IF index = 0 THEN Twice(0) ELSE Sum(i - 1, i),
              control |-> Twice(i),
              end |-> CASE index = 0 -> Sum(1, 2)
                        [] index = totalSegments - 1 -> Twice(0)
                        [] OTHER -> Sum(i, i + 1)]

FailedQuery == [fails |-> TRUE, x |-> 0, y |-> 0, den |-> 1]

\* getTrackPoint(t): (1-u)^2 S + 2(1-u)u C + u^2 E, over 2 * den^2.
GetTrackPoint(points, num, den) ==
    LET sg == Segment(points, num, den)
        u == sg.un
        u1 == den - sg.un
        B(c) == u1 * u1 * sg.start[c] + 2 * u1 * u * sg.control[c] + u * u * sg.end[c]
    IN  IF sg.fails
        THEN FailedQuery
        ELSE [fails |-> FALSE, x |-> B(1), y |-> B(2), den |-> 2 * den * den]

\* getTrackDirection(t): the derivative 2(1-u)(C - S) + 2u(E - C), over den; the
\* heading returned is the atan2 of this vector.
GetTrackDirection(points, num, den) ==
    LET sg == Segment(points, num, den)
        u == sg.un
        u1 == den - sg.un
        D(c) == u1 * (sg.control[c] - sg.start[c]) + u * (sg.end[c] - sg.control[c])
    IN  IF sg.fails
        THEN FailedQuery
        ELSE [fails |-> FALSE, x |-> D(1), y |-> D(2), den |-> den]

\* sqrt(dx^2 + dy^2) < r, for points given as pairs.
Near(p, q, r) ==
    /\ Abs(p[1] - q[1]) < r
    /\ Abs(p[2] - q[2]) < r
    /\ (p[1] - q[1]) * (p[1] - q[1]) + (p[2] - q[2]) * (p[2] - q[2]) < r * r

\* The k-th sample of the centre line, to the nearest 1/20 px.
TrackSample(points, k, count) ==
    LET q == GetTrackPoint(points, k, count)
    IN  << Rnd(q.x, q.den), Rnd(q.y, q.den) >>

\* Faulty variant of isPointOnTrack(x, y): ten samples only.
IsPointOnTrack_FewSamples(points, p) ==
    \E k \in 0..9 : Near(p, TrackSample(points, k, 10), trackWidth \div 2)

\* isPointOnTrack(x, y): the nearest of the samples is closer than width / 2.
IsPointOnTrack(points, p) ==
    \E k \in 0..(TrackSamples - 1) :
        Near(p, TrackSample(points, k, TrackSamples), trackWidth \div 2)

(***************************************************************************)
(* SpecTrack: one call of getTrackPoint, getTrackDirection or              *)
(* isPointOnTrack on the track of any index up to MaxTrackIndex.           *)
(* bench.points are the track's control points; bench.fn, num, den and p   *)
(* are the call and its arguments, bench.result and bench.onTrack what it  *)
(* returned.  isPointOnTrack is asked about a control point (kind          *)
(* "control", index k) or about the point where two segments of the centre *)
(* line join (kind "joint": the first control point for k = 0, else the    *)
(* midpoint of control points k and k + 1).                                *)
(***************************************************************************)
MaxTrackIndex == 9

\* The denominator of the curve parameters asked for: half segments.
TrackDen == 56

TrackNums ==
    {-112, -84, -57, -56, -55, -29, -28, -27, -1, 0, 1, 27, 28, 29, 55, 56, 57, 84, 111, 112, 113, 168}

ControlPoint(points, k) == points[k + 1]

Joint(points, k) ==
    IF k = 0
    THEN points[1]
    ELSE << Rnd(points[k + 1][1] + points[k + 2][1], 2),
            Rnd(points[k + 1][2] + points[k + 2][2], 2) >>

InitTrack ==
    /\ now = Epoch
    /\ running = FALSE
    /\ timer = 0
    /\ frame = 0
    /\ game = NewGame(1, FALSE, NoBestLap, Epoch)
    /\ probe = NoProbe(game.playerCount)
    /\ \E trackIndex \in 0..MaxTrackIndex :
          bench = [done |-> FALSE, calls |-> 0, trackIndex |-> trackIndex,
                   points |-> TrackPoints(trackIndex), fn |-> "none",
                   num |-> 0, den |-> 1, result |-> FailedQuery,
                   kind |-> "none", k |-> 0, p |-> <<0, 0>>, onTrack |-> FALSE]

CallGetTrackPoint(num, den) ==
    /\ ~bench.done
    /\ bench' = [bench EXCEPT !.done = TRUE, !.calls = @ + 1, !.fn = "getTrackPoint",
                              !.num = num, !.den = den,
                              !.result = GetTrackPoint(bench.points, num, den)]
    /\ UNCHANGED <<now, running, timer, frame, game, probe>>

CallGetTrackDirection(num, den) ==
    /\ ~bench.done
    /\ bench' = [bench EXCEPT !.done = TRUE, !.calls = @ + 1, !.fn = "getTrackDirection",
                              !.num = num, !.den = den,
                              !.result = GetTrackDirection(bench.points, num, den)]
    /\ UNCHANGED <<now, running, timer, frame, game, probe>>

CallIsPointOnTrack(kind, k) ==
    /\ ~bench.done
    /\ LET p == IF kind = "control"
                THEN ControlPoint(bench.points, k)
                ELSE Joint(bench.points, k)
       IN  bench' = [bench EXCEPT !.done = TRUE, !.calls = @ + 1, !.fn = "isPointOnTrack",
                                  !.kind = kind, !.k = k, !.p = p,
                                  !.onTrack = IsPointOnTrack(bench.points, p)]
    /\ UNCHANGED <<now, running, timer, frame, game, probe>>

NextTrack ==
    \/ \E num \in TrackNums : CallGetTrackPoint(num, TrackDen)
    \/ \E num \in TrackNums : CallGetTrackDirection(num, TrackDen)
    \/ \E k \in 0..(segments - 1) : CallGetTrackDirection(k, segments)
    \/ \E kind \in {"control", "joint"}, k \in 0..(Len(bench.points) - 2) :
          CallIsPointOnTrack(kind, k)

SpecTrack == InitTrack /\ [][NextTrack]_vars

(***************************************************************************)
(* SpecGhost: getGhostSampleAt() called up to MaxQueries times in a row on *)
(* a game that loaded a best lap.                                          *)
(***************************************************************************)
MaxQueries == 3

\* Best laps as setBestLap stores them: the lap of the 65 s scenario, a lap
\* whose last frame recorded a regular sample too, and a lap that ends less
\* than 30 ms after its last regular sample, after a spin.
GhostLaps ==
    { [has |-> TRUE, time |-> 65000,
       samples |-> << Sample(0, 0, 0, 350),
                      Sample(30000, 2000, 0, 10),
                      Sample(60000, 2000, 1000, 190) >>],
      [has |-> TRUE, time |-> 120,
       samples |-> << Sample(30, 100, 0, 0),
                      Sample(60, 160, 20, 30),
                      Sample(120, 200, 80, 60),
                      Sample(120, 200, 80, 60) >>],
      [has |-> TRUE, time |-> 100,
       samples |-> << Sample(30, 0, 0, 720),
                      Sample(90, 60, 0, 0),
                      Sample(100, 70, 30, 200) >>] }

QueryTimes == {0, 15, 30, 45, 60, 75, 90, 95, 100, 120, 30000, 45000, 60000, 65000}

InitGhost ==
    /\ now = Epoch
    /\ running = FALSE
    /\ timer = 0
    /\ frame = 0
    /\ \E lap \in GhostLaps : game = NewGame(1, TRUE, lap, Epoch)
    /\ probe = NoProbe(game.playerCount)
    /\ bench = NoBench

\* One call of getGhostSampleAt(sampleTime).
CallGetGhostSampleAt(sampleTime) ==
    /\ bench.calls < MaxQueries
    /\ LET r == GetGhostSampleAt(game, sampleTime)
       IN  /\ game' = r.g
           /\ bench' = [done |-> TRUE,
                        calls |-> bench.calls + 1,
                        t |-> sampleTime,
                        null |-> r.null,
                        sample |-> r.sample]
    /\ UNCHANGED <<now, running, timer, frame, probe>>

NextGhost == \E sampleTime \in QueryTimes : CallGetGhostSampleAt(sampleTime)

SpecGhost == InitGhost /\ [][NextGhost]_vars

(***************************************************************************)
(* SpecCursor: up to MaxCursorSteps steps on a game that loaded a best     *)
(* lap, each a getGhostSampleAt() query, a setBestLap() that replaces the  *)
(* samples, or the restart of the lap.  bench.done says that the last step *)
(* was a query, bench.t, null and sample are that query and its result.    *)
(***************************************************************************)
MaxCursorSteps == 4

\* bench.replaced and bench.restarts count the setBestLap() calls and the lap
\* restarts so far; bench.before is the cursor the last query found.
InitCursor ==
    /\ now = Epoch
    /\ running = FALSE
    /\ timer = 0
    /\ frame = 0
    /\ \E lap \in GhostLaps : game = NewGame(1, TRUE, lap, Epoch)
    /\ probe = NoProbe(game.playerCount)
    /\ bench = [done |-> FALSE, calls |-> 0, t |-> 0, null |-> TRUE,
                sample |-> Pose(0, 0, 0, 1), before |-> 0,
                replaced |-> 0, restarts |-> 0]

CursorQuery(sampleTime) ==
    /\ bench.calls < MaxCursorSteps
    /\ LET r == GetGhostSampleAt(game, sampleTime)
       IN  /\ game' = r.g
           /\ bench' = [bench EXCEPT !.done = TRUE, !.calls = @ + 1,
                                     !.t = sampleTime, !.null = r.null,
                                     !.sample = r.sample,
                                     !.before = game.ghostCursor]
    /\ UNCHANGED <<now, running, timer, frame, probe>>

CursorSetBestLap(lap) ==
    /\ bench.calls < MaxCursorSteps
    /\ game' = SetBestLap(game, lap.time, lap.samples, now)
    /\ bench' = [bench EXCEPT !.done = FALSE, !.calls = @ + 1, !.replaced = @ + 1]
    /\ UNCHANGED <<now, running, timer, frame, probe>>

CursorRestartLap ==
    /\ bench.calls < MaxCursorSteps
    /\ game' = RestartLap(game, 1, now)
    /\ bench' = [bench EXCEPT !.done = FALSE, !.calls = @ + 1, !.restarts = @ + 1]
    /\ UNCHANGED <<now, running, timer, frame, probe>>

NextCursor ==
    \/ \E sampleTime \in QueryTimes : CursorQuery(sampleTime)
    \/ \E lap \in GhostLaps : CursorSetBestLap(lap)
    \/ CursorRestartLap

SpecCursor == InitCursor /\ [][NextCursor]_vars

(***************************************************************************)
(* SpecAngle: interpolateAngle(a, b, t) called on angles that headings     *)
(* accumulate to, with t = num / RatioDen.                                 *)
(***************************************************************************)
RatioDen == 2

AngleInputs == {-360, 0, 10, 170, 190, 350, 370, 720}

InitAngle ==
    /\ now = Epoch
    /\ running = FALSE
    /\ timer = 0
    /\ frame = 0
    /\ game = NewGame(1, FALSE, NoBestLap, Epoch)
    /\ probe = NoProbe(game.playerCount)
    /\ bench = NoBench

\* One call of interpolateAngle(a, b, num / den); out is the result times den.
CallInterpolateAngle(a, b, num, den) ==
    /\ ~bench.done
    /\ bench' = [done |-> TRUE,
                 calls |-> bench.calls + 1,
                 a |-> a, b |-> b, num |-> num, den |-> den,
                 out |-> InterpolateAngle(a, b, num, den)]
    /\ UNCHANGED <<now, running, timer, frame, game, probe>>

NextAngle ==
    \E a \in AngleInputs, b \in AngleInputs, num \in 0..RatioDen :
        CallInterpolateAngle(a, b, num, RatioDen)

SpecAngle == InitAngle /\ [][NextAngle]_vars

(***************************************************************************)
(* SpecTwin: two games of MaxPlayers cars run side by side on the same     *)
(* clock and the same control inputs.  They differ in ghost data only: the *)
(* stored best lap, ghostEnabled, and whether a frame of the second game   *)
(* draws, skips drawing, or makes one more ghost query before drawing.     *)
(* The second game is bench.twin.                                          *)
(***************************************************************************)
MaxTwinFrames == 4

TwinModes == {"draw", "skip", "query"}

\* One frame of the second game in the given mode.
TwinFrame(G, poses, t, mode) ==
    CASE mode = "draw" -> GameLoopBody(G, poses, t)
      [] mode = "skip" -> Update(G, poses, t)
      [] OTHER -> GameLoopBody(GetGhostSampleAt(G, 0).g, poses, t)

InitTwin ==
    /\ now = Epoch
    /\ running = FALSE
    /\ timer = 0
    /\ frame = 0
    /\ \E ge \in BOOLEAN, stored \in StoredLaps :
          game = NewGame(MaxPlayers, ge, stored, Epoch)
    /\ probe = NoProbe(game.playerCount)
    /\ \E ge \in BOOLEAN, stored \in StoredLaps :
          bench = [done |-> FALSE, calls |-> 0,
                   twin |-> NewGame(MaxPlayers, ge, stored, Epoch)]

\* start() in both games.
TwinStart(initialized, mode) ==
    /\ ~running
    /\ game.countdownStartTime = 0
    /\ LET G0 == StartCountdown(game, now)
           G1 == IF initialized THEN G0 ELSE CountdownDone(G0, now)
           T0 == StartCountdown(bench.twin, now)
           T1 == IF initialized THEN T0 ELSE CountdownDone(T0, now)
           poses == [i \in 1..game.playerCount |-> StillPose(G1.cars[i])]
       IN  /\ game' = GameLoopBody(G1, poses, now)
           /\ probe' = ProbeOf(G1, poses, now, probe)
           /\ bench' = [bench EXCEPT !.done = TRUE, !.calls = @ + 1,
                                     !.twin = TwinFrame(T1, poses, now, mode)]
    /\ running' = TRUE
    /\ timer' = IF initialized THEN now + countdownDuration ELSE 0
    /\ frame' = frame + 1
    /\ now' = now

\* The countdown timer fires in both games.
TwinTimerFires ==
    /\ timer # 0
    /\ now >= timer
    /\ game' = CountdownDone(game, now)
    /\ bench' = [bench EXCEPT !.twin = CountdownDone(@, now)]
    /\ timer' = 0
    /\ UNCHANGED <<now, running, frame, probe>>

\* One gameLoop() iteration in both games.
TwinGameLoop(dt, poses, mode) ==
    /\ running
    /\ frame < MaxTwinFrames
    /\ now' = now + dt
    /\ frame' = frame + 1
    /\ game' = GameLoopBody(game, poses, now')
    /\ probe' = ProbeOf(game, poses, now', probe)
    /\ bench' = [bench EXCEPT !.calls = @ + 1,
                              !.twin = TwinFrame(@, poses, now', mode)]
    /\ UNCHANGED <<running, timer>>

NextTwin ==
    \/ \E initialized \in BOOLEAN, mode \in TwinModes : TwinStart(initialized, mode)
    \/ TwinTimerFires
    \/ \E dt \in RaceDtSet, poses \in PoseChoices(RacePoses), mode \in TwinModes :
          TwinGameLoop(dt, poses, mode)

SpecTwin == InitTwin /\ [][NextTwin]_vars

(***************************************************************************)
(* SpecSlip: applySlipstream() called on two or three cars: a follower     *)
(* heading along an axis, and the others placed ahead of it, beside it,    *)
(* behind it and on top of it, driving forwards, backwards or hardly at    *)
(* all.                                                                    *)
(***************************************************************************)
\* Where the second car is, seen from the follower: << ahead, to the side >>.
\* The range is 2800; <<1000, 500>> lies 26.6 degrees off the heading,
\* <<1000, -600>> 31 degrees.
SlipOffsets ==
    { <<0, 0>>, <<1, 0>>, <<1000, 0>>, <<2800, 0>>, <<2801, 0>>, <<1000, 500>>,
      <<1000, -600>>, <<-1000, 0>>, <<2600, 1100>>, <<2000, -1000>> }

\* The speed of the second car; the threshold 0.5 px per frame is 10.
SlipSpeeds == {-20, -10, -9, 0, 9, 10, 20}

\* A car with heading a and speed v at the point << ahead, side >> seen from
\* origin o along that heading.
SlipCar(o, a, q, v) ==
    LET f == Forward([angle |-> a])
    IN  [x |-> o[1] + (f.x * q[1] - f.y * q[2]) \div 1000,
         y |-> o[2] + (f.y * q[1] + f.x * q[2]) \div 1000,
         angle |-> a, speed |-> v]

\* The follower, at rest or driving, heading right, down, left or up, and a
\* second car; or the same with a third car ahead or beside, at rest or driving.
SlipPlacings ==
    { << SlipCar(o, a, <<0, 0>>, w), SlipCar(o, a, q, v) >> :
        o \in { <<0, 0>>, <<22000, 0>> }, a \in {90, 180, 270, 360},
        q \in SlipOffsets, v \in SlipSpeeds, w \in {0, 20} }
    \cup
    { << SlipCar(o, a, <<0, 0>>, 20), SlipCar(o, a, q, v), SlipCar(o, a, r, u) >> :
        o \in {<<0, 0>>}, a \in {90, 360}, q \in SlipOffsets, v \in SlipSpeeds,
        r \in { <<1500, 0>>, <<0, 1500>> }, u \in {0, 20} }

InitSlip ==
    /\ now = Epoch
    /\ running = FALSE
    /\ timer = 0
    /\ frame = 0
    /\ \E placing \in SlipPlacings :
          game = [NewGame(Len(placing), FALSE, NoBestLap, Epoch) EXCEPT
                     !.cars = PlaceCars(@, placing)]
    /\ probe = NoProbe(game.playerCount)
    /\ bench = [done |-> FALSE, calls |-> 0, before |-> game.cars]

\* One call of applySlipstream(); bench keeps the cars as they stood.
CallApplySlipstream ==
    /\ ~bench.done
    /\ game' = [game EXCEPT !.cars = ApplySlipstream(@, now)]
    /\ bench' = [done |-> TRUE, calls |-> bench.calls + 1, before |-> game.cars]
    /\ UNCHANGED <<now, running, timer, frame, probe>>

NextSlip == CallApplySlipstream

SpecSlip == InitSlip /\ [][NextSlip]_vars

(***************************************************************************)
(* SpecDraft and SpecSpeed: gameLoop() frames of a race under way in which *)
(* the poses come from the keys: handleInput() takes each car's throttle   *)
(* and brake keys, checkCarOnTrack() reports its tires on the track and    *)
(* Car.update() moves it and applies the friction. No car steers.          *)
(***************************************************************************)
MaxDraftFrames == 4
MaxSpeedFrames == 11

\* Lines 1668-1673: the brake key is down.
BrakeDown(speed, car) ==
    Max(speed - acceleration * SpeedSubunits,
        -((GetCurrentMaxSpeed(car) * SpeedSubunits) \div 2))

\* Car.speed from a speed in subunits.
ToSpeed(sub) ==
    IF sub >= 0 THEN sub \div SpeedSubunits ELSE -((-sub) \div SpeedSubunits)

\* Lines 1652-1673: the speed handleInput() leaves the car with; key tells
\* which of the throttle and brake keys are down: none, up, down or both.
HandleInput(car, key) ==
    LET s0 == car.speed * SpeedSubunits
        s1 == IF key \in {"up", "both"} THEN ThrottleUp(s0, car) ELSE s0
        s2 == IF key \in {"down", "both"} THEN BrakeDown(s1, car) ELSE s1
    IN  ToSpeed(s2)

\* handleInput(), checkCarOnTrack() and Car.update() (lines 580-601) for a car
\* that does not steer: the car moves by its speed, then the friction acts.
DrivenPose(car, key, tires) ==
    LET speed == HandleInput(car, key)
        f == Forward(car)
        onTrack == [car EXCEPT !.tiresOnTrack = tires]
    IN  [x |-> car.x + Rnd(f.x * speed, 1000),
         y |-> car.y + Rnd(f.y * speed, 1000),
         angle |-> car.angle,
         speed |-> ToSpeed(ApplyFriction(speed * SpeedSubunits, onTrack)),
         tiresOnTrack |-> tires,
         turnSpeed |-> car.turnSpeed,
         steerInput |-> 0]

\* A race of n cars on the grid, the countdown just over.
InitDriven(n) ==
    /\ now = Epoch
    /\ running = TRUE
    /\ timer = 0
    /\ frame = 0
    /\ game = CountdownDone(NewGame(n, FALSE, NoBestLap, Epoch), Epoch)
    /\ probe = NoProbe(game.playerCount)
    /\ bench = [done |-> FALSE, calls |-> 0, ticks |-> <<>>]

\* One gameLoop() dt ms after the previous one; bench keeps, for each frame,
\* the cars as applySlipstream() found them, as it left them, and as the boost
\* of lines 1776-1786 left them.
DrivenGameLoop(dt, keys, tires, maxFrames) ==
    /\ running
    /\ frame < maxFrames
    /\ now' = now + dt
    /\ frame' = frame + 1
    /\ LET poses == [i \in 1..game.playerCount |->
                        DrivenPose(game.cars[i], keys[i], tires[i])]
           G1 == CarsUpTo(game, game.playerCount, poses, now')
           slip == ApplySlipstream(G1.cars, now')
           boosted == [i \in DOMAIN slip |-> BoostCar(slip[i], now')]
       IN  /\ game' = GameLoopBody(game, poses, now')
           /\ probe' = ProbeOf(game, poses, now', probe)
           /\ bench' = [done |-> TRUE,
                        calls |-> bench.calls + 1,
                        ticks |-> Append(bench.ticks,
                                         [t |-> now', keys |-> keys, pre |-> G1.cars,
                                          slip |-> slip, boosted |-> boosted])]
    /\ UNCHANGED <<running, timer>>

\* Four cars: all on the throttle; car 1 on the throttle while the cars ahead
\* of it brake; nobody touches a key; car 1 brakes while the others drive.
DraftKeys ==
    { << "up", "up", "up", "up" >>,
      << "up", "down", "down", "down" >>,
      << "none", "none", "none", "none" >>,
      << "down", "up", "up", "up" >> }

InitDraft == InitDriven(4)

\* The frames are 20 ms apart, or 500 ms, longer than the boost lasts.
NextDraft ==
    \E dt \in {20, 500}, keys \in DraftKeys :
        DrivenGameLoop(dt, keys, [i \in 1..4 |-> 4], MaxDraftFrames)

SpecDraft == InitDraft /\ [][NextDraft]_vars

\* Three cars: car 1 drives at car 3, which reverses at it, with car 2 at
\* rest beside them; or the same with car 1 half on the grass and car 2 on
\* the grass with both keys down.
SpeedInputs ==
    { [keys |-> << "up", "none", "down" >>, tires |-> << 4, 4, 4 >>],
      [keys |-> << "up", "both", "down" >>, tires |-> << 2, 0, 4 >>] }

InitSpeed == InitDriven(3)

NextSpeed ==
    \E input \in SpeedInputs :
        DrivenGameLoop(20, input.keys, input.tires, MaxSpeedFrames)

SpecSpeed == InitSpeed /\ [][NextSpeed]_vars

(***************************************************************************)
(* SpecMenu: the menu of initMenu(): the player-count buttons, the clicks  *)
(* that switch a player between keyboard and gamepad, the start button,    *)
(* and gamepads being plugged in and out. bench holds                      *)
(* playerControllerConfig, selectedPlayers, GamepadManager.gamepads (as    *)
(* the set of its keys), the gamepads navigator.getGamepads() lists, and   *)
(* the controller configuration last passed to new Game.                   *)
(***************************************************************************)
MaxGamepadIndex == 1

\* null in playerControllerConfig: the player uses the keyboard.
NoGamepad == -1

MenuSlots == 1..4

\* Faulty variant of getAvailableGamepads(): every connected gamepad is
\* offered, assigned or not.
GetAvailableGamepads_IgnoresUsed(config, connected) == connected

\* getAvailableGamepads(): the connected indices no slot holds.
GetAvailableGamepads(config, connected) ==
    connected \ { config[i] : i \in DOMAIN config }

\* available[0]: Object.keys lists integer keys in ascending order.
FirstOf(available) == CHOOSE g \in available : \A h \in available : g <= h

\* GamepadManager.poll(): every gamepad the browser lists is (re)entered.
Poll(gamepads, listed) == gamepads \cup listed

InitMenu ==
    /\ now = Epoch
    /\ running = FALSE
    /\ timer = 0
    /\ frame = 0
    /\ game = NewGame(1, FALSE, NoBestLap, Epoch)
    /\ probe = NoProbe(game.playerCount)
    /\ bench = [done |-> FALSE,
                playerControllerConfig |-> [i \in MenuSlots |-> NoGamepad],
                selectedPlayers |-> 1,
                gamepads |-> {},
                listed |-> {},
                controllerConfig |-> <<>>]

\* The "gamepadconnected" listener (lines 286-289).
GamepadConnected(g) ==
    /\ g \notin bench.listed
    /\ bench' = [bench EXCEPT !.listed = @ \cup {g}, !.gamepads = @ \cup {g}]
    /\ UNCHANGED <<now, running, timer, frame, game, probe>>

\* The "gamepaddisconnected" listener (lines 291-294).
GamepadDisconnected(g) ==
    /\ g \in bench.listed
    /\ bench' = [bench EXCEPT !.listed = @ \ {g}, !.gamepads = @ \ {g}]
    /\ UNCHANGED <<now, running, timer, frame, game, probe>>

\* A click on a player-count button.
SelectPlayers(n) ==
    /\ n # bench.selectedPlayers
    /\ bench' = [bench EXCEPT !.selectedPlayers = n]
    /\ UNCHANGED <<now, running, timer, frame, game, probe>>

\* togglePlayerController(playerIndex), reached by a click on the line of one
\* of the selected players.
TogglePlayerController(i) ==
    /\ i <= bench.selectedPlayers
    /\ LET config == bench.playerControllerConfig
           connected == Poll(bench.gamepads, bench.listed)
           available == GetAvailableGamepads(config, connected)
       IN  bench' = [bench EXCEPT
                        !.gamepads = connected,
                        !.playerControllerConfig =
                            IF config[i] # NoGamepad
                            THEN [config EXCEPT ![i] = NoGamepad]
                            ELSE IF available # {}
                            THEN [config EXCEPT ![i] = FirstOf(available)]
                            ELSE config]
    /\ UNCHANGED <<now, running, timer, frame, game, probe>>

\* A click on the start button: new Game(selectedPlayers, ...,
\* playerControllerConfig.slice(0, selectedPlayers)).
StartGame ==
    /\ bench' = [bench EXCEPT
                    !.done = TRUE,
                    !.controllerConfig =
                        SubSeq(bench.playerControllerConfig, 1, bench.selectedPlayers)]
    /\ game' = NewGame(bench.selectedPlayers, FALSE, NoBestLap, now)
    /\ UNCHANGED <<now, running, timer, frame, probe>>

NextMenu ==
    \/ \E g \in 0..MaxGamepadIndex : GamepadConnected(g)
    \/ \E g \in 0..MaxGamepadIndex : GamepadDisconnected(g)
    \/ \E n \in MenuSlots : SelectPlayers(n)
    \/ \E i \in MenuSlots : TogglePlayerController(i)
    \/ StartGame

SpecMenu == InitMenu /\ [][NextMenu]_vars

(***************************************************************************)
(* Properties of the lap state machine, the race result and the best lap.  *)
(***************************************************************************)
Players == 1..game.playerCount

InStartRadius(seen) == seen.d2Start < GateRadius * GateRadius

\* C1: a car's lap count rises only in a frame whose lap check sees the car
\* closer than 100 px to the start point, with the checkpoint crossed, the finish
\* line not yet crossed on this pass, and a current lap time above 5000 ms.
C1_LapOnlyOnValidPass ==
    [][\A i \in Players :
          game'.cars[i].lap # game.cars[i].lap =>
              /\ probe'[i].ran
              /\ InStartRadius(probe'[i])
              /\ probe'[i].crossedCheckpoint
              /\ ~probe'[i].crossedFinishLine
              /\ probe'[i].currentLapTime > MinLapTime]_vars

\* A lap has just been counted.
C1_Witness ==
    \E i \in Players :
        /\ game.cars[i].lap = 1
        /\ game.cars[i].lapStartTime = now
        /\ probe[i].ran
        /\ probe[i].currentLapTime > MinLapTime

\* C2: a valid pass raises the lap count by exactly one; the count rises by at
\* most one per frame, and not again before the car has been inside the
\* checkpoint radius since the last rise.
C2_OncePerPass ==
    [][\A i \in Players :
          /\ game'.cars[i].lap \in {game.cars[i].lap, game.cars[i].lap + 1}
          /\ ( /\ probe'[i].ran
               /\ InStartRadius(probe'[i])
               /\ probe'[i].crossedCheckpoint
               /\ ~probe'[i].crossedFinishLine
               /\ probe'[i].currentLapTime > MinLapTime )
             => game'.cars[i].lap = game.cars[i].lap + 1
          /\ game'.cars[i].lap # game.cars[i].lap =>
                \/ probe[i].cpSince
                \/ probe'[i].d2Checkpoint < GateRadius * GateRadius]_vars

\* After a counted lap the car left the finish zone, came back with a lap time
\* above 5000 ms and without the checkpoint, and the count stayed.
C2_Witness ==
    \E i \in Players :
        /\ game.cars[i].lap = 1
        /\ game.cars[i].lapStartTime # now
        /\ probe[i].ran
        /\ InStartRadius(probe[i])
        /\ ~probe[i].crossedFinishLine
        /\ probe[i].currentLapTime > MinLapTime
        /\ ~probe[i].cpSince

Finishers == { i \in Players : game.cars[i].lap >= lapsToWin }

\* C3: the winner is null while no car has lapsToWin laps; once a car has, the
\* winner is the first car to get there (the lowest index among the cars that
\* got there in the same frame), and it never changes afterwards.
C3_WinnerFirstAndFinal ==
    /\ [](/\ (game.winner = 0) <=> (Finishers = {})
          /\ game.winner # 0 =>
                /\ game.winner \in Finishers
                /\ \A j \in Finishers : game.winner <= j)
    /\ [][game.winner # 0 => game'.winner = game.winner]_vars

\* Two cars finished their last lap in the same frame and a further frame ran.
C3_Witness ==
    /\ game.winner = 1
    /\ Cardinality(Finishers) >= 2
    /\ \A i \in Players : game.cars[i].lapStartTime < now

\* C6: at a counted lap the best-lap record becomes the lap's time and sample
\* buffer iff there was no record or the lap time is strictly below the record's
\* time; otherwise, and in every other step, the record is unchanged.
C6_BestLapStrictlyBetter ==
    [][/\ \A i \in Players :
             probe'[i].ran =>
                 LET seen == probe'[i]
                 IN  IF /\ game'.cars[i].lap # game.cars[i].lap
                        /\ (~seen.bestLap.has \/ seen.currentLapTime < seen.bestLap.time)
                     THEN seen.bestLapAfter =
                              [has |-> TRUE,
                               time |-> seen.currentLapTime,
                               samples |-> Append(seen.lapSamples,
                                                  Sample(seen.currentLapTime,
                                                         seen.x, seen.y, seen.angle))]
                     ELSE seen.bestLapAfter = seen.bestLap
       /\ \A i \in Players :
             probe'[i].ran =>
                 /\ probe'[i].bestLap = IF i = 1 THEN game.bestLap
                                        ELSE probe'[i - 1].bestLapAfter
                 /\ i = game.playerCount => game'.bestLap = probe'[i].bestLapAfter
       /\ (\E i \in Players : ~probe'[i].ran) => game'.bestLap = game.bestLap
       /\ game.bestLap.has =>
             /\ game'.bestLap.has
             /\ game'.bestLap.time <= game.bestLap.time]_vars

\* A lap was counted with exactly the record's time and the record stayed.
C6_Witness ==
    \E i \in Players :
        /\ game.cars[i].lap >= 1
        /\ game.cars[i].lapStartTime = now
        /\ probe[i].ran
        /\ probe[i].bestLap.has
        /\ probe[i].currentLapTime = probe[i].bestLap.time
        /\ probe[i].bestLapAfter = probe[i].bestLap
        /\ game.bestLap = probe[i].bestLap

GapsOk(samples) ==
    \A k \in 1..(Len(samples) - 1) : samples[k + 1].t - samples[k].t >= MinSampleInterval

\* C7 as stated: in every per-player buffer and in every best-lap record built
\* from one, consecutive samples are at least 30 ms apart.
C7_AsStated ==
    /\ \A i \in Players : GapsOk(game.lapSamples[i])
    /\ (game.bestLap.has /\ game.bestLap # StoredLap) => GapsOk(game.bestLap.samples)

\* C7: in every per-player buffer consecutive samples are at least 30 ms apart;
\* a best-lap record is such a buffer followed by the final sample of the lap,
\* which lies less than 30 ms after the sample before it.
C7_SampleSpacing ==
    /\ \A i \in Players : GapsOk(game.lapSamples[i])
    /\ game.bestLap.has =>
          LET s == game.bestLap.samples
              n == Len(s)
          IN  /\ n >= 2
              /\ GapsOk(SubSeq(s, 1, n - 1))
              /\ s[n].t - s[n - 1].t < MinSampleInterval
              /\ s[n].t >= s[n - 1].t
              /\ s[n].t = game.bestLap.time

\* A frame came less than 30 ms after a recorded sample and recorded nothing,
\* and a lap of this session made the record.
C7_Witness ==
    /\ game.bestLap.has
    /\ game.bestLap # StoredLap
    /\ \E i \in Players :
          /\ Len(game.lapSamples[i]) >= 1
          /\ probe[i].ran
          /\ game.lastSampleTimes[i] < probe[i].currentLapTime
          /\ probe[i].currentLapTime - game.lastSampleTimes[i] < MinSampleInterval

(***************************************************************************)
(* Properties of resolveCarCollisions().                                   *)
(***************************************************************************)
SeparationTol == 2

\* The pair resolved between bench.steps[k] and bench.steps[k + 1].
PairAt(k) == PairOrder(game.playerCount)[k]

PairSteps == 1..Len(PairOrder(game.playerCount))

Separated(cars, i, j) ==
    Dist2(cars[i], cars[j]) >=
        (MinDist(cars[i], cars[j]) - SeparationTol) * (MinDist(cars[i], cars[j]) - SeparationTol)

\* C4 as stated: every pair that collided when resolveCarCollisions began is
\* at least the sum of the radii (less a tolerance) apart when it has run.
C4_AsStated ==
    bench.done =>
        \A i \in Players : \A j \in Players :
            (i < j /\ PairCollides(bench.steps[1][i], bench.steps[1][j]))
                => Separated(game.cars, i, j)

\* C4: a pair that collides when its turn comes in the loop is at least the
\* sum of the radii (less a tolerance) apart right after its turn; with two
\* players that is the state resolveCarCollisions leaves.
C4_PairSeparatedAtItsTurn ==
    bench.done =>
        /\ \A k \in PairSteps :
              PairCollides(bench.steps[k][PairAt(k)[1]], bench.steps[k][PairAt(k)[2]])
                  => Separated(bench.steps[k + 1], PairAt(k)[1], PairAt(k)[2])
        /\ game.cars = bench.steps[Len(bench.steps)]
        /\ game.playerCount = 2 =>
              (PairCollides(bench.steps[1][1], bench.steps[1][2])
                  => Separated(game.cars, 1, 2))

\* With three or more cars a later pair collided at its turn and was separated.
C4_Witness ==
    /\ bench.done
    /\ game.playerCount >= 3
    /\ \E k \in PairSteps :
          /\ k >= 2
          /\ PairCollides(bench.steps[k][PairAt(k)[1]], bench.steps[k][PairAt(k)[2]])
          /\ Separated(bench.steps[k + 1], PairAt(k)[1], PairAt(k)[2])

\* C5 as stated: resolving a colliding pair does not raise the sum of the
\* magnitudes of the two forward speeds.
C5_AsStated ==
    bench.done =>
        \A k \in PairSteps :
            LET i == PairAt(k)[1]
                j == PairAt(k)[2]
                before == bench.steps[k]
                after == bench.steps[k + 1]
            IN  PairCollides(before[i], before[j]) =>
                    Abs(after[i].speed) + Abs(after[j].speed)
                        <= Abs(before[i].speed) + Abs(before[j].speed)

\* C5: resolving a colliding pair does not raise the sum of the squares of the
\* two forward speeds, and leaves the speed of every other car alone.
C5_EnergyNotRaised ==
    bench.done =>
        \A k \in PairSteps :
            LET i == PairAt(k)[1]
                j == PairAt(k)[2]
                before == bench.steps[k]
                after == bench.steps[k + 1]
            IN  /\ PairCollides(before[i], before[j]) =>
                       after[i].speed * after[i].speed + after[j].speed * after[j].speed
                           <= before[i].speed * before[i].speed
                                  + before[j].speed * before[j].speed
                /\ \A c \in Players \ {i, j} : after[c].speed = before[c].speed

\* A colliding pair was resolved and the impulse changed both speeds.
C5_Witness ==
    /\ bench.done
    /\ \E k \in PairSteps :
          LET i == PairAt(k)[1]
              j == PairAt(k)[2]
          IN  /\ PairCollides(bench.steps[k][i], bench.steps[k][j])
              /\ bench.steps[k + 1][i].speed # bench.steps[k][i].speed
              /\ bench.steps[k + 1][j].speed # bench.steps[k][j].speed
              /\ bench.steps[k][i].speed # 0

(***************************************************************************)
(* Properties of getGhostSampleAt() and interpolateAngle().                *)
(***************************************************************************)
StrictlyIncreasing(samples) ==
    \A k \in 1..(Len(samples) - 1) : samples[k].t < samples[k + 1].t

RECURSIVE GCD(_, _)
GCD(a, b) == IF b = 0 THEN a ELSE GCD(b, a % b)

\* n1 / d1 = n2 / d2 for positive d1 and d2, compared in lowest terms.
SameFraction(n1, d1, n2, d2) ==
    LET g1 == GCD(Abs(n1), d1)
        g2 == GCD(Abs(n2), d2)
    IN  n1 \div g1 = n2 \div g2 /\ d1 \div g1 = d2 \div g2

\* (u + (v - u) * n / d) * d
LerpTimes(u, v, n, d) == u * d + (v - u) * n

\* C8: on strictly increasing samples, a query between the first and the last
\* timestamp returns the linear interpolation of x and y between the two
\* consecutive samples around it, and a query at or before the first timestamp
\* returns the first sample's pose.
C8_GhostInterpolates ==
    (bench.done /\ StrictlyIncreasing(game.ghostSamples)) =>
        LET s == game.ghostSamples
            out == bench.sample
        IN  /\ ~bench.null
            /\ bench.t <= s[1].t =>
                  /\ out.x = s[1].x * out.den
                  /\ out.y = s[1].y * out.den
                  /\ out.angle = s[1].angle * out.den
            /\ \A k \in 1..(Len(s) - 1) :
                  (s[k].t <= bench.t /\ bench.t <= s[k + 1].t) =>
                      LET d == s[k + 1].t - s[k].t
                      IN  /\ SameFraction(out.x, out.den,
                                          LerpTimes(s[k].x, s[k + 1].x, bench.t - s[k].t, d), d)
                          /\ SameFraction(out.y, out.den,
                                          LerpTimes(s[k].y, s[k + 1].y, bench.t - s[k].t, d), d)

\* After a query further on in the lap, the query at 45000 on samples at 0,
\* 30000 and 60000 returned the midpoint of the last two.
C8_Witness ==
    /\ bench.done
    /\ bench.calls >= 2
    /\ bench.t = 45000
    /\ game.ghostSamples[2].t = 30000
    /\ game.ghostSamples[3].t = 60000
    /\ 2 * bench.sample.x = (game.ghostSamples[2].x + game.ghostSamples[3].x) * bench.sample.den
    /\ 2 * bench.sample.y = (game.ghostSamples[2].y + game.ghostSamples[3].y) * bench.sample.den
    /\ game.ghostSamples[2].y # game.ghostSamples[3].y

\* C9 as stated: on strictly increasing samples, a query at sample k's
\* timestamp returns sample k's x, y and angle.
C9_AsStated ==
    (bench.done /\ StrictlyIncreasing(game.ghostSamples)) =>
        \A k \in 1..Len(game.ghostSamples) :
            bench.t = game.ghostSamples[k].t =>
                /\ bench.sample.x = game.ghostSamples[k].x * bench.sample.den
                /\ bench.sample.y = game.ghostSamples[k].y * bench.sample.den
                /\ bench.sample.angle = game.ghostSamples[k].angle * bench.sample.den

\* C9: on strictly increasing samples, a query at sample k's timestamp returns
\* sample k's x and y and an angle that is sample k's angle modulo a full turn;
\* it is sample k's angle itself when k is the first sample or the angle is
\* less than half a turn from the angle of sample k - 1.
C9_SamplePoseUpToTurns ==
    (bench.done /\ StrictlyIncreasing(game.ghostSamples)) =>
        \A k \in 1..Len(game.ghostSamples) :
            bench.t = game.ghostSamples[k].t =>
                LET s == game.ghostSamples
                    out == bench.sample
                IN  /\ out.x = s[k].x * out.den
                    /\ out.y = s[k].y * out.den
                    /\ (out.angle - s[k].angle * out.den) % (360 * out.den) = 0
                    /\ (k = 1 \/ ( /\ s[k].angle - s[k - 1].angle >= -180
                                   /\ s[k].angle - s[k - 1].angle < 180 ))
                           => out.angle = s[k].angle * out.den

\* A query at a later sample's timestamp returned that sample's position and
\* its heading a whole number of turns off.
C9_Witness ==
    /\ bench.done
    /\ StrictlyIncreasing(game.ghostSamples)
    /\ \E k \in 2..Len(game.ghostSamples) :
          /\ bench.t = game.ghostSamples[k].t
          /\ bench.sample.x = game.ghostSamples[k].x * bench.sample.den
          /\ bench.sample.angle # game.ghostSamples[k].angle * bench.sample.den

\* C10 as stated: for all a, b and every ratio in [0, 1], interpolateAngle
\* returns a plus the ratio times a turn that is b - a modulo a full turn and
\* at most half a turn long.
C10_AsStated ==
    bench.done =>
        \E turn \in -180..180 :
            /\ (turn - (bench.b - bench.a)) % 360 = 0
            /\ bench.out = bench.a * bench.den + turn * bench.num

(***************************************************************************)
(* The ghost and the race.                                                 *)
(***************************************************************************)
\* The race as the cars see it: everything but the best lap and the ghost.
RaceView(G) ==
    [cars |-> G.cars, winner |-> G.winner, lapSamples |-> G.lapSamples,
     lastSampleTimes |-> G.lastSampleTimes, countdownActive |-> G.countdownActive,
     countdownStartTime |-> G.countdownStartTime, countdownEndTime |-> G.countdownEndTime]

\* C11: two games that differ only in ghost data (stored best lap, ghostEnabled,
\* ghost queries made) and get the same clock and control inputs have the same
\* cars (position, heading, speed, lap count, lap flags) and winner after
\* every frame.
C11_GhostNeverSteers == RaceView(game) = RaceView(bench.twin)

\* Both games counted a lap while one of them played a ghost the other did
\* not have.
C11_Witness ==
    /\ bench.done
    /\ game.cars[1].lap >= 1
    /\ game.ghostCar # bench.twin.ghostCar
    /\ game.bestLap # bench.twin.bestLap
    /\ game.ghostEnabled # bench.twin.ghostEnabled

(***************************************************************************)
(* The countdown.                                                          *)
(***************************************************************************)
\* What the countdown must leave alone in a car.
Frozen(car) ==
    [x |-> car.x, y |-> car.y, angle |-> car.angle, speed |-> car.speed,
     turnSpeed |-> car.turnSpeed, steerInput |-> car.steerInput, lap |-> car.lap,
     crossedCheckpoint |-> car.crossedCheckpoint,
     crossedFinishLine |-> car.crossedFinishLine]

\* A frame ran while the countdown was active.
CountdownTick == frame' = frame + 1 /\ game'.countdownActive

\* C12: in a tick during the countdown every car keeps its position, heading,
\* speed, turn rate, steer input, lap count, checkpoint and finish flags and
\* its sample buffer, whatever inputs are held, and its currentLapTime is 0.
C12_CountdownFreezesCars ==
    [][CountdownTick =>
         \A i \in Players :
            /\ Frozen(game'.cars[i]) = Frozen(game.cars[i])
            /\ game'.lapSamples[i] = game.lapSamples[i]
            /\ game'.lastSampleTimes[i] = game.lastSampleTimes[i]
            /\ game'.cars[i].currentLapTime = 0]_vars

\* Two frames ran, the countdown is still active and the cars are on the grid.
C12_Witness ==
    /\ frame >= 2
    /\ game.countdownActive
    /\ now > game.countdownStartTime
    /\ \A i \in Players : game.cars[i].x = GridSlot(i).x /\ game.cars[i].currentLapTime = 0

(***************************************************************************)
(* The minimum lap duration.                                               *)
(***************************************************************************)
\* Car i's lap check of this step ran inside the finish radius with the
\* checkpoint crossed.
PassSeen(seen) == seen.ran /\ InStartRadius(seen) /\ seen.crossedCheckpoint

\* C19 as stated: a lap check of a car inside the finish radius with the
\* checkpoint crossed and currentLapTime above 5000 ms counts the lap, whether
\* the car entered the radius before or after that time.  (A counted lap clears
\* the checkpoint flag, so the first such check of a pass fails this exactly
\* when some such check does.)
C19_AsStated ==
    [][\A i \in Players :
          (PassSeen(probe'[i]) /\ probe'[i].currentLapTime > MinLapTime)
             => game'.cars[i].lap = game.cars[i].lap + 1]_vars

\* C19: such a check counts the lap exactly when crossedFinishLine is clear.  A
\* check that finds the car in the radius at or before 5000 ms sets
\* crossedFinishLine, keeps crossedCheckpoint and counts nothing, and a set
\* crossedFinishLine stays set until a check finds the car more than 200 px
\* from the start point.
C19_FlaggedPassWaitsForRearm ==
    [][\A i \in Players :
          /\ (PassSeen(probe'[i]) /\ probe'[i].currentLapTime > MinLapTime)
                => (game'.cars[i].lap = game.cars[i].lap + 1
                       <=> ~probe'[i].crossedFinishLine)
          /\ (PassSeen(probe'[i]) /\ probe'[i].currentLapTime <= MinLapTime)
                => /\ game'.cars[i].lap = game.cars[i].lap
                   /\ game'.cars[i].crossedFinishLine
                   /\ game'.cars[i].crossedCheckpoint
          /\ (game.cars[i].crossedFinishLine /\ ~game'.cars[i].crossedFinishLine)
                => /\ probe'[i].ran
                   /\ probe'[i].d2Start > FinishRearmRadius * FinishRearmRadius]_vars

\* The car entered the finish radius too early with the checkpoint crossed, is
\* still there after 5000 ms, and no lap was counted.
C19_Witness ==
    \E i \in Players :
        /\ PassSeen(probe[i])
        /\ probe[i].currentLapTime > MinLapTime
        /\ probe[i].crossedFinishLine
        /\ game.cars[i].lap = 0
        /\ game.cars[i].crossedCheckpoint

\* C20 as stated: no frame applies input or moves a car before the countdown
\* duration (3500 ms) has passed since startCountdown(), whether or not the
\* sound manager is initialized.
C20_AsStated ==
    \A i \in Players :
        probe[i].ran => now - game.countdownStartTime >= countdownDuration

(***************************************************************************)
(* A head-on collision.                                                    *)
(***************************************************************************)
\* The two cars face each other on a line, overlap, and drive at each other
\* with the same speed.
HeadOn(cars) ==
    LET fA == Forward(cars[1])
        fB == Forward(cars[2])
        dx == cars[2].x - cars[1].x
        dy == cars[2].y - cars[1].y
    IN  /\ fA.x = -fB.x /\ fA.y = -fB.y
        /\ dx * fA.y = dy * fA.x
        /\ dx * fA.x + dy * fA.y > 0
        /\ cars[1].speed = cars[2].speed /\ cars[1].speed > 0
        /\ PairCollides(cars[1], cars[2])

\* The centers are the sum of the radii apart, up to the tolerance.
Touching(cars) ==
    /\ Separated(cars, 1, 2)
    /\ Dist2(cars[1], cars[2]) <=
          (MinDist(cars[1], cars[2]) + SeparationTol) * (MinDist(cars[1], cars[2]) + SeparationTol)

\* C17: one resolveCarCollisions() on two cars that meet head-on at equal and
\* opposite velocity, their centers between 0 and the sum of the radii apart,
\* leaves each car slower in magnitude than it was and the centers the sum of
\* the radii apart.
C17_HeadOnSlowsAndSeparates ==
    (bench.done /\ HeadOn(bench.steps[1])) =>
        /\ \A i \in Players : Abs(game.cars[i].speed) < Abs(bench.steps[1][i].speed)
        /\ Touching(game.cars)

\* A head-on pair 20 px apart at full speed was resolved: both cars bounced back.
C17_Witness ==
    /\ bench.done
    /\ HeadOn(bench.steps[1])
    /\ bench.steps[1][1].speed = maxSpeedAsphalt
    /\ Dist2(bench.steps[1][1], bench.steps[1][2]) = 401 * 401
    /\ \A i \in Players : game.cars[i].speed < 0
    /\ game.cars[1].x # bench.steps[1][1].x \/ game.cars[1].y # bench.steps[1][1].y

(***************************************************************************)
(* Full throttle.                                                          *)
(***************************************************************************)
\* C13 as stated, its last part: under sustained full throttle from rest, fully
\* on the track, the speed approaches maxSpeedAsphalt; it gets at least half
\* way there.
C13_AsStated == <>(bench.speed >= (maxSpeedAsphalt * SpeedSubunits) \div 2)

(***************************************************************************)
(* Loading the stored best lap.                                            *)
(***************************************************************************)
\* The stored value is missing, unparsable or malformed: not an object, a time
\* that is not a positive number, samples that are not an array, or an entry
\* that is not a sample record.
Malformed(stored) ==
    \/ stored.kind # "object"
    \/ ~stored.hasTime
    \/ stored.time <= 0
    \/ stored.samplesKind # "array"
    \/ \E k \in DOMAIN stored.samples : IsNullEntry(stored.samples[k])

\* C16 as stated: a game started on a missing, unparsable or malformed stored
\* best lap loaded it as null, and no frame or ghost query of it fails.
C16_AsStated ==
    (bench.done /\ Malformed(bench.stored)) =>
        (bench.loaded = NoBestLap /\ ~bench.failed)

(***************************************************************************)
(* Properties of the track.                                                *)
(***************************************************************************)
\* The query returned exactly the first control point.
IsFirstPoint(result, points) ==
    /\ ~result.fails
    /\ result.x = points[1][1] * result.den
    /\ result.y = points[1][2] * result.den

\* C14: for every track index the control-point list has 29 entries, the last
\* equal to the first, and getTrackPoint(0) and getTrackPoint(1) both return
\* the first control point.
C14_LoopClosed ==
    /\ Len(bench.points) = segments + 1
    /\ bench.points[Len(bench.points)] = bench.points[1]
    /\ (bench.done /\ bench.fn = "getTrackPoint" /\ bench.num \in {0, bench.den})
          => IsFirstPoint(bench.result, bench.points)

\* getTrackPoint(1) was called on the track of index 9 and returned its first
\* control point.
C14_Witness ==
    /\ bench.done
    /\ bench.fn = "getTrackPoint"
    /\ bench.num = bench.den
    /\ bench.trackIndex = 9
    /\ IsFirstPoint(bench.result, bench.points)
    /\ Len(bench.points) = 29

\* C15 as stated: for t below 0 or at least 1, getTrackPoint(t) and
\* getTrackDirection(t) do not fail and return what they return for t reduced
\* modulo 1 into [0, 1).
C15_AsStated ==
    (bench.done /\ bench.fn \in {"getTrackPoint", "getTrackDirection"}) =>
        /\ ~bench.result.fails
        /\ bench.result =
              IF bench.fn = "getTrackPoint"
              THEN GetTrackPoint(bench.points, bench.num % bench.den, bench.den)
              ELSE GetTrackDirection(bench.points, bench.num % bench.den, bench.den)

C24_CheckpointFlagSticks ==
    [][\A i \in Players :
          /\ game.cars[i].crossedCheckpoint =>
                \/ game'.cars[i].crossedCheckpoint
                \/ game'.cars[i].lap = game.cars[i].lap + 1
          /\ (probe'[i].ran /\ probe'[i].d2Checkpoint < GateRadius * GateRadius)
                => /\ probe'[i].crossedCheckpoint
                   /\ game'.cars[i].crossedCheckpoint]_vars

\* The car crossed the checkpoint, then its finish pass was rejected for a lap
\* time of at most 5000 ms, and the flag is still set.
C24_Witness ==
    \E i \in Players :
        /\ PassSeen(probe[i])
        /\ ~probe[i].crossedFinishLine
        /\ probe[i].currentLapTime <= MinLapTime
        /\ game.cars[i].lap = 0
        /\ game.cars[i].crossedCheckpoint

(***************************************************************************)
(* The end of the race.                                                    *)
(***************************************************************************)
\* C25: once there is a winner, a tick changes no car (position, heading,
\* speed, lap count, lap flags, lap times), no sample buffer and not the
\* best-lap record, whatever inputs are held; the winner stays.
C25_WinnerFreezesRace ==
    [][game.winner # 0 =>
          /\ game'.cars = game.cars
          /\ game'.lapSamples = game.lapSamples
          /\ game'.lastSampleTimes = game.lastSampleTimes
          /\ game'.bestLap = game.bestLap
          /\ game'.winner = game.winner]_vars

\* A frame ran after the frame that set the winner: the clock moved on and the
\* winner's lap clock did not.
C25_Witness ==
    /\ game.winner # 0
    /\ game.cars[game.winner].lap = lapsToWin
    /\ now > game.cars[game.winner].lapStartTime
    /\ \A i \in Players : ~probe[i].ran

\* The countdown's completion callback ran in this step.
CallbackFired == game'.countdownEndTime # game.countdownEndTime

\* C26: the step in which the countdown's completion callback fires releases
\* the gate and leaves every car's lapStartTime and the ghost's start time at
\* that one instant, every car's currentLapTime at 0 and the ghost cursor at 0.
C26_OneEpochAtRelease ==
    [][CallbackFired =>
          /\ ~game'.countdownActive
          /\ game'.countdownEndTime = now'
          /\ game'.ghostStartTime = now'
          /\ game'.ghostCursor = 0
          /\ \A i \in Players :
                /\ game'.cars[i].lapStartTime = now'
                /\ game'.cars[i].currentLapTime = 0]_vars

\* The timer fired after a countdown of at least 3500 ms.
C26_Witness ==
    /\ ~game.countdownActive
    /\ timer = 0
    /\ game.countdownEndTime = now
    /\ now >= game.countdownStartTime + countdownDuration
    /\ game.ghostStartTime = now
    /\ \A i \in Players : game.cars[i].lapStartTime = now /\ ~probe[i].ran

(***************************************************************************)
(* The best-lap records of a session.                                      *)
(***************************************************************************)
NonDecreasing(samples) ==
    \A k \in 1..(Len(samples) - 1) : samples[k].t <= samples[k + 1].t

\* A well-formed record: not empty, timestamps in order and within the lap,
\* the last one equal to the lap time, which is above 5000 ms.
RecordOk(lap) ==
    /\ Len(lap.samples) > 0
    /\ NonDecreasing(lap.samples)
    /\ \A k \in DOMAIN lap.samples : lap.samples[k].t >= 0 /\ lap.samples[k].t <= lap.time
    /\ lap.samples[Len(lap.samples)].t = lap.time
    /\ lap.time > MinLapTime

\* C29: a best-lap record made in a tick is well formed; a counted lap, best or
\* not, empties the car's sample buffer and zeroes its last-sample time; and a
\* car's buffer holds samples of its current lap only, in time order.
C29_BestLapRecordWellFormed ==
    [][/\ game'.bestLap # game.bestLap =>
             /\ game'.bestLap.has
             /\ RecordOk(game'.bestLap)
       /\ \A i \in Players :
             /\ game'.cars[i].lap # game.cars[i].lap =>
                   /\ game'.lapSamples[i] = <<>>
                   /\ game'.lastSampleTimes[i] = 0
             /\ NonDecreasing(game'.lapSamples[i])
             /\ \A k \in DOMAIN game'.lapSamples[i] :
                   game'.lapSamples[i][k].t <= game'.cars[i].currentLapTime]_vars

\* The second lap of a car beat the record its first lap had set: the new
\* record holds the second lap's samples only.
C29_Witness ==
    \E i \in Players :
        /\ game.cars[i].lap = 2
        /\ game.cars[i].lapStartTime = now
        /\ probe[i].ran
        /\ probe[i].bestLap.has
        /\ probe[i].bestLap.time > probe[i].currentLapTime
        /\ game.bestLap.time = probe[i].currentLapTime
        /\ game.bestLap.samples = Append(probe[i].lapSamples, game.bestLap.samples[Len(game.bestLap.samples)])
        /\ RecordOk(game.bestLap)
        /\ Len(game.bestLap.samples) >= 2
        /\ game.lapSamples[i] = <<>>

(***************************************************************************)
(* The ghost cursor.                                                       *)
(***************************************************************************)
\* The pose a lookup without a cursor returns: the scan starts at the first
\* sample.
StatelessSample(samples, sampleTime) ==
    GhostPoseAt(samples, GhostScan(samples, 0, sampleTime), sampleTime)

\* C21: on sorted samples, whatever queries, best-lap replacements and lap
\* restarts came before, getGhostSampleAt returns the pose of a lookup that
\* scans from the first sample, and ghostCursor is an index of the current
\* samples.
C21_CursorMatchesStateless ==
    NonDecreasing(game.ghostSamples) =>
        /\ bench.done =>
              /\ ~bench.null
              /\ bench.sample = StatelessSample(game.ghostSamples, bench.t)
        /\ Len(game.ghostSamples) > 0 =>
              (game.ghostCursor >= 0 /\ game.ghostCursor < Len(game.ghostSamples))

\* After a replacement of the best lap, a query moved the cursor forward and
\* the next query, at an earlier sample time, started from a cursor that was
\* ahead of its answer.
C21_Witness ==
    /\ bench.done
    /\ bench.replaced >= 1
    /\ bench.before > game.ghostCursor
    /\ bench.t > game.ghostSamples[1].t
    /\ bench.sample = StatelessSample(game.ghostSamples, bench.t)

(***************************************************************************)
(* The smoothness of the centre line.                                      *)
(***************************************************************************)
\* Segment number index of the curve: twice its start, control and end point.
SegmentAt(points, index) == Segment(points, index, Len(points) - 1)

\* The direction the curve arrives with at the end of a segment: that of its
\* derivative 2(1-u)(C - S) + 2u(E - C) as u tends to 1.
ArrivalTangent(sg) ==
    IF sg.end # sg.control
    THEN << sg.end[1] - sg.control[1], sg.end[2] - sg.control[2] >>
    ELSE << sg.control[1] - sg.start[1], sg.control[2] - sg.start[2] >>

\* The two vectors point the same way.
SameDirection(v, w) ==
    /\ v[1] * w[2] - v[2] * w[1] = 0
    /\ v[1] * w[1] + v[2] * w[2] > 0

\* C27 as stated: at each of the 28 segment boundaries t = k / 28, the seam
\* k = 0 included, the segment before ends where the segment after starts and
\* the direction getTrackDirection returns at the boundary is the direction
\* the curve arrives with.
C27_AsStated ==
    (bench.done /\ bench.fn = "getTrackDirection" /\ bench.den = segments) =>
        LET before == SegmentAt(bench.points, (bench.num + segments - 1) % segments)
            after == SegmentAt(bench.points, bench.num)
        IN  /\ ~bench.result.fails
            /\ before.end = after.start
            /\ SameDirection(ArrivalTangent(before),
                             << bench.result.x \div bench.result.den,
                                bench.result.y \div bench.result.den >>)

(***************************************************************************)
(* Slipstream: who grants a boost.                                         *)
(***************************************************************************)
\* applySlipstream() gave car i a new boost expiry.
Marked(i) == game.cars[i].slipstreamEndTime # bench.before[i].slipstreamEndTime

\* The target is farther than 0 and at most the slipstream range from the car.
InSlipRange(car, target) ==
    /\ Abs(target.x - car.x) <= slipstreamDistance
    /\ Abs(target.y - car.y) <= slipstreamDistance
    /\ Dist2(car, target) > 0
    /\ Dist2(car, target) <= slipstreamDistance * slipstreamDistance

\* The target lies within 30 degrees of the car's heading: it is ahead by a,
\* and a / distance >= cos(30 degrees), that is 4 a^2 >= 3 distance^2.
InSlipCone(car, target) ==
    LET f == Forward(car)
        a == (f.x * (target.x - car.x) + f.y * (target.y - car.y)) \div 1000
    IN  a > 0 /\ 4 * a * a >= 3 * Dist2(car, target)

\* C23 as stated: a follower's boost is marked only for a leader whose forward
\* speed is above the threshold 0.5, which is in range and within the cone.
C23_AsStated ==
    bench.done =>
        \A i \in Players :
            Marked(i) =>
                \E j \in Players \ {i} :
                    /\ bench.before[j].speed > 10
                    /\ InSlipRange(bench.before[i], bench.before[j])
                    /\ InSlipCone(bench.before[i], bench.before[j])

\* C23, amended: a follower's boost is marked only for a leader that moves at
\* 0.5 px per frame or more in either direction, forwards or in reverse, that
\* is farther than 0 and at most 140 px away and that lies within 30 degrees
\* of the follower's heading; when every other car is slower than 0.5 px per
\* frame in both directions, no boost is marked.
C23_MarkedOnlyForMovingLeader ==
    bench.done =>
        \A i \in Players :
            /\ Marked(i) =>
                  \E j \in Players \ {i} :
                      /\ Abs(bench.before[j].speed) >= 10
                      /\ InSlipRange(bench.before[i], bench.before[j])
                      /\ InSlipCone(bench.before[i], bench.before[j])
            /\ (\A j \in Players \ {i} : Abs(bench.before[j].speed) < 10) => ~Marked(i)

\* A car has been given a boost by a car that reverses in front of it.
C23_Witness ==
    /\ bench.done
    /\ \E i \in Players :
          /\ Marked(i)
          /\ game.cars[i].slipstreamEndTime = now + slipstreamDuration
          /\ \A j \in Players \ {i} :
                (InSlipRange(bench.before[i], bench.before[j])
                    /\ InSlipCone(bench.before[i], bench.before[j]))
                => bench.before[j].speed <= -10

(***************************************************************************)
(* The speed of a car at the end of a frame.                               *)
(***************************************************************************)
\* The last frame's record.
LastTick == bench.ticks[Len(bench.ticks)]

\* The boost of lines 1776-1786 changed car i's speed in the frame tick.
Gained(tick, i) == tick.boosted[i].speed # tick.slip[i].speed

\* C28: at the end of every frame every car's speed is at least
\* -0.5 * maxSpeedAsphalt and at most maxSpeedAsphalt * 1.08.
C28_SpeedWithinBounds ==
    \A i \in Players :
        /\ game.cars[i].speed >= -(maxSpeedAsphalt \div 2)
        /\ game.cars[i].speed <= (maxSpeedAsphalt * 108) \div 100

\* A frame in which a car was on the throttle, another on the brake, a car
\* was boosted and two cars collided, after frames in which the track contact
\* of a car changed.
C28_Witness ==
    /\ bench.done
    /\ \E i \in Players : Gained(LastTick, i)
    /\ ResolveCarCollisions(LastTick.boosted) # LastTick.boosted
    /\ \E i, j \in Players : LastTick.keys[i] = "up" /\ LastTick.keys[j] = "down"
    /\ \E k \in 1..(Len(bench.ticks) - 1), i \in Players :
          bench.ticks[k].pre[i].tiresOnTrack # bench.ticks[k + 1].pre[i].tiresOnTrack
    /\ \E i \in Players : game.cars[i].speed < 0
    /\ \E i \in Players : game.cars[i].speed > 0

(***************************************************************************)
(* Slipstream: how long a boost lasts.                                     *)
(***************************************************************************)
\* The cars that qualify as leaders of car i in the frame tick.
LeadersOf(tick, i) ==
    { j \in DOMAIN tick.pre \ {i} :
        /\ Abs(tick.pre[j].speed) >= 10
        /\ InSlipRange(tick.pre[i], tick.pre[j])
        /\ InSlipCone(tick.pre[i], tick.pre[j]) }

\* The speed one increment leaves a car with.
OneIncrement(car) ==
    Min(car.speed + slipstreamBoostAccel, (GetCurrentMaxSpeed(car) * 108) \div 100)

\* C22: a car's speed receives the increment in a frame only if its speed is
\* positive and less than 450 ms have passed since a frame in which it had a
\* qualifying leader; when it has no qualifying leader and the stored expiry
\* has passed, it receives none; with one leader or several, the expiry is
\* the frame's time plus 450 ms and the speed receives one increment.
C22_BoostLastsAndExpires ==
    \A k \in 1..Len(bench.ticks) :
        \A i \in Players :
            LET tick == bench.ticks[k]
            IN  /\ Gained(tick, i) =>
                      /\ tick.pre[i].speed > 0
                      /\ \E m \in 1..k :
                            /\ LeadersOf(bench.ticks[m], i) # {}
                            /\ tick.t - bench.ticks[m].t < slipstreamDuration
                /\ (LeadersOf(tick, i) = {} /\ tick.t >= tick.pre[i].slipstreamEndTime)
                      => tick.boosted[i].speed = tick.pre[i].speed
                /\ LeadersOf(tick, i) # {} =>
                      /\ tick.boosted[i].slipstreamEndTime = tick.t + slipstreamDuration
                      /\ tick.boosted[i].speed =
                            IF tick.pre[i].speed > 0
                            THEN OneIncrement(tick.pre[i])
                            ELSE tick.pre[i].speed

\* Car 1 has been boosted behind two leaders, then again in a frame in which
\* it had no leader left, and later, the expiry passed, it drove on without.
C22_Witness ==
    \E k1, k2, k3 \in 1..Len(bench.ticks) :
        /\ k1 < k2
        /\ k2 < k3
        /\ Cardinality(LeadersOf(bench.ticks[k1], 1)) >= 2
        /\ Gained(bench.ticks[k1], 1)
        /\ LeadersOf(bench.ticks[k2], 1) = {}
        /\ Gained(bench.ticks[k2], 1)
        /\ LeadersOf(bench.ticks[k3], 1) = {}
        /\ bench.ticks[k3].pre[1].speed > 0
        /\ bench.ticks[k3].t >= bench.ticks[k3].pre[1].slipstreamEndTime
        /\ ~Gained(bench.ticks[k3], 1)

(***************************************************************************)
(* The menu's controller configuration.                                    *)
(***************************************************************************)
\* No gamepad index appears twice in the configuration.
NoSharedGamepad(config) ==
    \A i, j \in DOMAIN config :
        (i # j /\ config[i] # NoGamepad) => config[i] # config[j]

\* C30: in the menu no gamepad index is assigned to two player slots at once,
\* and the configuration passed to a new Game gives no two cars the same
\* gamepad.
C30_NoSharedGamepad ==
    /\ NoSharedGamepad(bench.playerControllerConfig)
    /\ NoSharedGamepad(bench.controllerConfig)

\* A game has been started for three players, two of them on gamepads, one
\* of which has been unplugged since, while no further gamepad was left for
\* the third player to switch to.
C30_Witness ==
    /\ bench.done
    /\ Len(bench.controllerConfig) = 3
    /\ bench.controllerConfig = SubSeq(bench.playerControllerConfig, 1, 3)
    /\ Cardinality({ i \in 1..3 : bench.controllerConfig[i] # NoGamepad }) = 2
    /\ \E i \in 1..3 :
          /\ bench.controllerConfig[i] # NoGamepad
          /\ bench.controllerConfig[i] \notin bench.listed
          /\ bench.controllerConfig[i] \notin bench.gamepads

====
